---- MODULE Spec2Model ----
(***************************************************************************)
(* PingMesh: the coordinator's Store, cluster liveness, quorum consensus   *)
(* with the incident lifecycle, and the join-token endpoint.               *)
(*                                                                         *)
(* Time is the coordinator's wall clock (time.Now().UnixMilli()) counted   *)
(* in abstract units >= 1; a stored timestamp of 0 is the Go zero value    *)
(* that the Store writes as NULL ("not set").                              *)
(***************************************************************************)
EXTENDS Integers, Sequences, FiniteSets, TLC

\* ---------------------------------------------------------------- bounds
MaxTime == 3
MaxResults == 3
MaxJoinRequests == 3
MaxLoops == 2

\* ------------------------------------------------------ program constants
\* LIMIT 100 of the streak scans.
ScanLimit == 100
\* DetectOfflineNodes(90000), in clock units (one unit = 90 s).
OfflineTimeout == 1

\* The coordinator's own node id (config.NodeID) and the node ids of the
\* cluster, in the order their records were created.  Store reads are taken
\* to succeed; the Store writes that may fail are named where they occur.
Self == "A"
NodeOrder == <<"A", "B", "C">>
NodeIDs == {NodeOrder[i] : i \in 1..Len(NodeOrder)}

MonitorOrder == <<"m1">>
MonitorIDs == {MonitorOrder[i] : i \in 1..Len(MonitorOrder)}

CheckStatuses == {"up", "down", "degraded"}

VARIABLES
    now,        \* wall clock of the coordinator
    nodes,      \* nodes table: sequence of rows in rowid order
    monitors,   \* monitors table: monitor id -> row
    results,    \* check_results table: <<monitor, node>> -> rows in id order
    incidents,  \* incidents table: rows in creation order, id = position
    alerts,     \* calls made to the alert dispatcher, in order
    tokens,     \* join_tokens table: token hash -> row
    joins,      \* join requests being served: request -> handler state
    role,       \* config.Role of the node whose Store and server these are
    sched,      \* the node's Scheduler: timers/cancels, running, goroutines
    workerMonitors, \* monitors table in the Store of worker B
    link,           \* whether this node reaches the coordinator
    coordResults,   \* results the coordinator got from this node's pushes
    main,           \* where the agent command is: running ... exited
    call            \* the library call being exercised: arguments and result

\* The state at the other end of the network, and of the connection to it.
remote == <<workerMonitors, link, coordResults>>

\* The state outside the Store and the join handlers.
aux == <<role, sched, remote, main, call>>

vars == <<now, nodes, monitors, results, incidents, alerts, tokens, joins,
          role, sched, workerMonitors, link, coordResults, main, call>>

\* No library call is being exercised.
NoCall == [op |-> "none"]

Min(a, b) == IF a < b THEN a ELSE b

Range(seq) == {seq[i] : i \in 1..Len(seq)}

RemoveAt(s, i) == SubSeq(s, 1, i - 1) \o SubSeq(s, i + 1, Len(s))

\* ------------------------------------------------------------ nodes table

\* SELECT ... FROM nodes ORDER BY created_at (rows of equal created_at in
\* rowid order).
RECURSIVE OrderByCreatedAt(_)
OrderByCreatedAt(rows) ==
    IF rows = <<>> THEN <<>>
    ELSE LET i == CHOOSE i \in 1..Len(rows) :
                    \A j \in 1..Len(rows) :
                        \/ rows[i].created_at < rows[j].created_at
                        \/ rows[i].created_at = rows[j].created_at /\ i <= j
         IN <<rows[i]>> \o OrderByCreatedAt(RemoveAt(rows, i))

ListNodes(ns) == OrderByCreatedAt(ns)

\* UPDATE nodes SET status = ?, last_seen = ? WHERE id = ?
UpdateNodeStatus(ns, id, status, lastSeen) ==
    [i \in 1..Len(ns) |->
        IF ns[i].id = id
        THEN [ns[i] EXCEPT !.status = status, !.last_seen = lastSeen]
        ELSE ns[i]]

\* INSERT INTO nodes
CreateNode(ns, node) == Append(ns, node)

GetOnlineNodes(ns) == SelectSeq(ListNodes(ns), LAMBDA n : n.status = "online")

\* UpdateHeartbeat that inserts a record for a node id it does not know.
UpdateHeartbeat_Upsert(ns, nodeID, t) ==
    IF \E i \in 1..Len(ns) : ns[i].id = nodeID
    THEN UpdateNodeStatus(ns, nodeID, "online", t)
    ELSE Append(ns, [id |-> nodeID, role |-> "node", status |-> "online",
                     last_seen |-> t, created_at |-> t])

UpdateHeartbeat(ns, nodeID, t) == UpdateNodeStatus(ns, nodeID, "online", t)

RECURSIVE MarkOffline_AtCutoff(_, _, _)
MarkOffline_AtCutoff(ns, listed, cutoff) ==
    IF listed = <<>> THEN ns
    ELSE LET n == Head(listed)
             after == IF n.last_seen <= cutoff /\ n.status = "online"
                      THEN UpdateNodeStatus(ns, n.id, "offline", n.last_seen)
                      ELSE ns
         IN MarkOffline_AtCutoff(after, Tail(listed), cutoff)

\* The sweep writes each stale row back with the last_seen it read.
RECURSIVE MarkOffline(_, _, _)
MarkOffline(ns, listed, cutoff) ==
    IF listed = <<>> THEN ns
    ELSE LET n == Head(listed)
             after == IF n.last_seen < cutoff /\ n.status = "online"
                      THEN UpdateNodeStatus(ns, n.id, "offline", n.last_seen)
                      ELSE ns
         IN MarkOffline(after, Tail(listed), cutoff)

DetectOfflineNodes(ns, timeout, t) == MarkOffline(ns, ListNodes(ns), t - timeout)

\* ---------------------------------------------------------- check results

\* ORDER BY timestamp DESC; rows of equal timestamp come newest id first, the
\* order of a backward scan of idx_results_monitor_node.
RECURSIVE OrderByTimestampDesc(_)
OrderByTimestampDesc(rows) ==
    IF rows = <<>> THEN <<>>
    ELSE LET i == CHOOSE i \in 1..Len(rows) :
                    \A j \in 1..Len(rows) :
                        \/ rows[j].timestamp < rows[i].timestamp
                        \/ rows[j].timestamp = rows[i].timestamp /\ j <= i
         IN <<rows[i]>> \o OrderByTimestampDesc(RemoveAt(rows, i))

Limit(rows, k) == SubSeq(rows, 1, Min(k, Len(rows)))

\* Position of the first row of the scan with a status in S, or one past
\* the last row when there is none: where the loop over the rows leaves.
FirstWith(rows, S) ==
    LET at == {i \in 1..Len(rows) : rows[i].status \in S}
    IN IF at = {} THEN Len(rows) + 1
       ELSE CHOOSE i \in at : \A j \in at : i <= j

\* FailureRun in which a degraded result ends the run as an up one does.
FailureRun_DownOnly(rows) == FirstWith(rows, {"up", "degraded"}) - 1

\* The rows counted before the loop meets an up row and breaks: the run of
\* non-up rows at the head of the scan.
FailureRun(rows) == FirstWith(rows, {"up"}) - 1

\* SuccessRun in which a degraded result counts as an up one does.
SuccessRun_NotDown(rows) == FirstWith(rows, {"down"}) - 1

\* The rows counted before the loop meets a row that is not up and breaks:
\* the run of up rows at the head of the scan.
SuccessRun(rows) == FirstWith(rows, CheckStatuses \ {"up"}) - 1

CountConsecutiveFailures(res, monitorID, nodeID) ==
    FailureRun(Limit(OrderByTimestampDesc(res[<<monitorID, nodeID>>]), ScanLimit))

CountConsecutiveSuccesses(res, monitorID, nodeID) ==
    SuccessRun(Limit(OrderByTimestampDesc(res[<<monitorID, nodeID>>]), ScanLimit))

\* Number of rows of check_results.
RECURSIVE CountRows(_, _)
CountRows(res, pairs) ==
    IF pairs = {} THEN 0
    ELSE LET p == CHOOSE p \in pairs : TRUE
         IN Len(res[p]) + CountRows(res, pairs \ {p})

\* INSERT INTO check_results; the id is the row's position.
InsertCheckResult(res, r) ==
    [res EXCEPT ![<<r.monitor_id, r.node_id>>] =
        Append(@, [status |-> r.status, timestamp |-> r.timestamp])]

\* --------------------------------------------------------- monitors table

\* SELECT ... FROM monitors WHERE enabled = 1 ORDER BY name (the monitors are
\* named after their ids).
ListEnabledMonitors(ms) ==
    SelectSeq(MonitorOrder, LAMBDA id : id \in DOMAIN ms /\ ms[id].enabled)

\* -------------------------------------------------------- incidents table

\* Row ids of the monitor's incidents whose status is not resolved.
ActiveIncidents_AnyStatus(incs, monitorID) ==
    {i \in 1..Len(incs) : incs[i].monitor_id = monitorID}

ActiveIncidents(incs, monitorID) ==
    {i \in 1..Len(incs) :
        incs[i].monitor_id = monitorID /\ incs[i].status # "resolved"}

\* ... WHERE monitor_id = ? AND status != 'resolved' ORDER BY created_at DESC
\* LIMIT 1; 0 stands for the nil incident.
GetActiveIncident(incs, monitorID) ==
    LET act == ActiveIncidents(incs, monitorID)
    IN IF act = {} THEN 0
       ELSE CHOOSE i \in act :
                \A j \in act :
                    \/ incs[j].created_at < incs[i].created_at
                    \/ incs[j].created_at = incs[i].created_at /\ j <= i

\* INSERT INTO incidents
CreateIncident(incs, incident) == Append(incs, incident)

\* UPDATE incidents SET status, confirmed_at, resolved_at, confirming_nodes
\* WHERE id = ?
UpdateIncident(incs, id, incident) ==
    [incs EXCEPT ![id] = [@ EXCEPT !.status = incident.status,
                                   !.confirmed_at = incident.confirmed_at,
                                   !.resolved_at = incident.resolved_at,
                                   !.confirming_nodes = incident.confirming_nodes]]

\* GetOrCreateIncident without the lookup of the active incident.
GetOrCreateIncident_AlwaysCreates(incs, monitorID, t, createFails) ==
    [incidents |->
        CreateIncident(incs, [monitor_id |-> monitorID,
                              status |-> "suspect",
                              started_at |-> t,
                              confirmed_at |-> 0,
                              resolved_at |-> 0,
                              confirming_nodes |-> <<>>,
                              created_at |-> t]),
     id |-> Len(incs) + 1,
     err |-> FALSE]

\* The active incident of the monitor, or a new suspect one.  createFails is
\* the outcome of the CreateIncident write.  The result holds the table, the
\* incident's id and whether an error was returned.
GetOrCreateIncident(incs, monitorID, t, createFails) ==
    LET active == GetActiveIncident(incs, monitorID)
    IN IF active # 0
       THEN [incidents |-> incs, id |-> active, err |-> FALSE]
       ELSE IF createFails
       THEN [incidents |-> incs, id |-> 0, err |-> TRUE]
       ELSE [incidents |->
                CreateIncident(incs, [monitor_id |-> monitorID,
                                      status |-> "suspect",
                                      started_at |-> t,
                                      confirmed_at |-> 0,
                                      resolved_at |-> 0,
                                      confirming_nodes |-> <<>>,
                                      created_at |-> t]),
             id |-> Len(incs) + 1,
             err |-> FALSE]

\* ConfirmIncident that does not record the confirming nodes.
ConfirmIncident_DropsNodes(incs, id, confirmingNodes, t) ==
    UpdateIncident(incs, id,
        [incs[id] EXCEPT !.status = "confirmed", !.confirmed_at = t])

\* The table after ConfirmIncident on incident id.
ConfirmIncident(incs, id, confirmingNodes, t) ==
    UpdateIncident(incs, id,
        [incs[id] EXCEPT !.status = "confirmed",
                         !.confirmed_at = t,
                         !.confirming_nodes = confirmingNodes])

\* ResolveIncident that writes NULL to confirmed_at.
ResolveIncident_ClearsConfirmedAt(incs, id, t) ==
    UpdateIncident(incs, id,
        [incs[id] EXCEPT !.status = "resolved", !.resolved_at = t,
                         !.confirmed_at = 0])

\* The table after ResolveIncident on incident id.
ResolveIncident(incs, id, t) ==
    UpdateIncident(incs, id,
        [incs[id] EXCEPT !.status = "resolved", !.resolved_at = t])

\* -------------------------------------------------------------- consensus

\* EvaluateQuorum in which exactly half counts as a majority.
EvaluateQuorum_HalfIsMajority(quorumType, quorumN, failCount, totalCount) ==
    CASE quorumType = "majority" -> failCount >= totalCount \div 2
      [] quorumType = "n_of_m"   -> failCount >= quorumN
      [] OTHER                   -> failCount >= totalCount \div 2

EvaluateQuorum_CeilHalf(quorumType, quorumN, failCount, totalCount) ==
    CASE quorumType = "majority" -> failCount > (totalCount + 1) \div 2
      [] quorumType = "n_of_m"   -> failCount >= quorumN
      [] OTHER                   -> failCount > (totalCount + 1) \div 2

EvaluateQuorum(quorumType, quorumN, failCount, totalCount) ==
    CASE quorumType = "majority" -> failCount > totalCount \div 2
      [] quorumType = "n_of_m"   -> failCount >= quorumN
      [] OTHER                   -> failCount > totalCount \div 2

\* failingNodeIDs: the online nodes whose failure streak reaches the
\* monitor's failure_threshold, in the order of onlineNodes.
FailingNodeIDs(res, monitorID, mon, onlineNodes) ==
    SelectSeq(onlineNodes,
        LAMBDA n : CountConsecutiveFailures(res, monitorID, n)
                        >= mon.failure_threshold)

\* The online nodes whose success streak reaches recovery_threshold.
RecoveredNodeIDs(res, monitorID, mon, onlineNodes) ==
    SelectSeq(onlineNodes,
        LAMBDA n : CountConsecutiveSuccesses(res, monitorID, n)
                        >= mon.recovery_threshold)

SendAlert(sent, id) == Append(sent, [event |-> "alert", incident |-> id])

SendRecovery(sent, id) == Append(sent, [event |-> "recovery", incident |-> id])

\* evaluateMonitorConsensus that resolves the active incident as soon as the
\* failure quorum is not met, without the recovery quorum.
evaluateMonitorConsensus_NoRecoveryQuorum(cs, monitorID, mon, onlineNodes, totalNodes, res, t, fault) ==
    LET failing == FailingNodeIDs(res, monitorID, mon, onlineNodes)
        quorumMet == EvaluateQuorum(mon.quorum_type, mon.quorum_n,
                                    Len(failing), totalNodes)
    IN IF quorumMet
       THEN LET g == GetOrCreateIncident(cs.incidents, monitorID, t,
                                         fault = "create")
            IN IF g.err THEN cs
               ELSE IF g.incidents[g.id].status = "suspect"
               THEN IF fault = "update"
                    THEN [cs EXCEPT !.incidents = g.incidents]
                    ELSE [incidents |->
                              ConfirmIncident(g.incidents, g.id, failing, t),
                          alerts |-> SendAlert(cs.alerts, g.id)]
               ELSE [cs EXCEPT !.incidents = g.incidents]
       ELSE LET active == GetActiveIncident(cs.incidents, monitorID)
            IN IF active = 0 \/ fault = "update" THEN cs
               ELSE [incidents |-> ResolveIncident(cs.incidents, active, t),
                     alerts |-> SendRecovery(cs.alerts, active)]

\* evaluateMonitorConsensus in two phases: the tick that creates the
\* incident leaves it suspect, a later tick confirms it.
evaluateMonitorConsensus_TwoPhase(cs, monitorID, mon, onlineNodes, totalNodes, res, t, fault) ==
    LET failing == FailingNodeIDs(res, monitorID, mon, onlineNodes)
        quorumMet == EvaluateQuorum(mon.quorum_type, mon.quorum_n,
                                    Len(failing), totalNodes)
    IN IF quorumMet
       THEN LET g == GetOrCreateIncident(cs.incidents, monitorID, t,
                                         fault = "create")
            IN IF g.err THEN cs
               ELSE IF g.id > Len(cs.incidents)
               THEN [cs EXCEPT !.incidents = g.incidents]
               ELSE IF g.incidents[g.id].status = "suspect" /\ fault # "update"
               THEN [incidents |->
                         ConfirmIncident(g.incidents, g.id, failing, t),
                     alerts |-> SendAlert(cs.alerts, g.id)]
               ELSE cs
       ELSE LET active == GetActiveIncident(cs.incidents, monitorID)
            IN IF active = 0 THEN cs
               ELSE LET recovered == RecoveredNodeIDs(res, monitorID, mon,
                                                      onlineNodes)
                        recoveryQuorumMet ==
                            EvaluateQuorum(mon.quorum_type, mon.quorum_n,
                                           Len(recovered), totalNodes)
                    IN IF recoveryQuorumMet /\ fault # "update"
                       THEN [incidents |->
                                 ResolveIncident(cs.incidents, active, t),
                             alerts |-> SendRecovery(cs.alerts, active)]
                       ELSE cs

\* evaluateMonitorConsensus that calls the alerter without looking at the
\* error of ConfirmIncident or ResolveIncident.
evaluateMonitorConsensus_AlertsOnError(cs, monitorID, mon, onlineNodes, totalNodes, res, t, fault) ==
    LET failing == FailingNodeIDs(res, monitorID, mon, onlineNodes)
        quorumMet == EvaluateQuorum(mon.quorum_type, mon.quorum_n,
                                    Len(failing), totalNodes)
    IN IF quorumMet
       THEN LET g == GetOrCreateIncident(cs.incidents, monitorID, t,
                                         fault = "create")
            IN IF g.err THEN cs
               ELSE IF g.incidents[g.id].status = "suspect"
               THEN [incidents |->
                         IF fault = "update" THEN g.incidents
                         ELSE ConfirmIncident(g.incidents, g.id, failing, t),
                     alerts |-> SendAlert(cs.alerts, g.id)]
               ELSE [cs EXCEPT !.incidents = g.incidents]
       ELSE LET active == GetActiveIncident(cs.incidents, monitorID)
            IN IF active = 0 THEN cs
               ELSE LET recovered == RecoveredNodeIDs(res, monitorID, mon,
                                                      onlineNodes)
                        recoveryQuorumMet ==
                            EvaluateQuorum(mon.quorum_type, mon.quorum_n,
                                           Len(recovered), totalNodes)
                    IN IF recoveryQuorumMet
                       THEN [incidents |->
                                 IF fault = "update" THEN cs.incidents
                                 ELSE ResolveIncident(cs.incidents, active, t),
                             alerts |-> SendRecovery(cs.alerts, active)]
                       ELSE cs

\* One monitor's evaluation.  cs holds the incidents table and the alerts
\* sent so far; fault names the Store write that fails during it: "none",
\* "create" (CreateIncident) or "update" (UpdateIncident).
evaluateMonitorConsensus(cs, monitorID, mon, onlineNodes, totalNodes, res, t, fault) ==
    LET failing == FailingNodeIDs(res, monitorID, mon, onlineNodes)
        quorumMet == EvaluateQuorum(mon.quorum_type, mon.quorum_n,
                                    Len(failing), totalNodes)
    IN IF quorumMet
       THEN LET g == GetOrCreateIncident(cs.incidents, monitorID, t,
                                         fault = "create")
            IN IF g.err THEN cs
               ELSE IF g.incidents[g.id].status = "suspect"
               THEN IF fault = "update"
                    THEN [cs EXCEPT !.incidents = g.incidents]
                    ELSE [incidents |->
                              ConfirmIncident(g.incidents, g.id, failing, t),
                          alerts |-> SendAlert(cs.alerts, g.id)]
               ELSE [cs EXCEPT !.incidents = g.incidents]
       ELSE LET active == GetActiveIncident(cs.incidents, monitorID)
            IN IF active = 0 THEN cs
               ELSE LET recovered == RecoveredNodeIDs(res, monitorID, mon,
                                                      onlineNodes)
                        recoveryQuorumMet ==
                            EvaluateQuorum(mon.quorum_type, mon.quorum_n,
                                           Len(recovered), totalNodes)
                    IN IF recoveryQuorumMet /\ fault # "update"
                       THEN [incidents |->
                                 ResolveIncident(cs.incidents, active, t),
                             alerts |-> SendRecovery(cs.alerts, active)]
                       ELSE cs

RECURSIVE EvaluateEach(_, _, _, _, _, _, _)
EvaluateEach(cs, list, ms, onlineNodes, res, t, faults) ==
    IF list = <<>> THEN cs
    ELSE EvaluateEach(
            evaluateMonitorConsensus(cs, Head(list), ms[Head(list)],
                                     onlineNodes, Len(onlineNodes), res, t,
                                     faults[Head(list)]),
            Tail(list), ms, onlineNodes, res, t, faults)

\* One consensus tick over the whole Store; faults gives, per monitor, the
\* Store write that fails.
evaluateConsensus(cs, ms, ns, res, t, faults) ==
    LET onlineNodes == GetOnlineNodes(ns)
        onlineIDs == [i \in 1..Len(onlineNodes) |-> onlineNodes[i].id]
    IN IF Len(onlineNodes) = 0 THEN cs
       ELSE EvaluateEach(cs, ListEnabledMonitors(ms), ms, onlineIDs, res, t,
                         faults)

\* ------------------------------------------------------------ the cluster

NodeRow(id, nodeRole, t) ==
    [id |-> id, role |-> nodeRole, status |-> "online", last_seen |-> t,
     created_at |-> t]

\* The settings a monitor is created with: thresholds >= 1, either quorum
\* type, quorum_n from 0 (the column's default) upwards.
MonitorConfigs ==
    [enabled : {TRUE},
     failure_threshold : {1, 2},
     recovery_threshold : {1},
     quorum_type : {"majority"},
     quorum_n : {0}]
    \cup
    [enabled : {TRUE},
     failure_threshold : {1},
     recovery_threshold : {1},
     quorum_type : {"n_of_m"},
     quorum_n : {0, 2}]

\* A monitor created with no thresholds or quorum in the request body gets
\* the defaults.
DefaultMonitor ==
    [enabled |-> TRUE, failure_threshold |-> 3, recovery_threshold |-> 2,
     quorum_type |-> "majority", quorum_n |-> 0]

NoFaults == [m \in MonitorIDs |-> "none"]

FaultKinds == {"none", "create", "update"}

\* The Store of a running cluster before any result: the node rows, no
\* results, no incidents.
InitTables ==
    /\ now = 1
    /\ nodes = [i \in 1..Len(NodeOrder) |->
                    NodeRow(NodeOrder[i],
                            IF NodeOrder[i] = Self THEN "coordinator" ELSE "node",
                            1)]
    /\ results = [p \in MonitorIDs \X NodeIDs |-> <<>>]
    /\ incidents = <<>>
    /\ alerts = <<>>

InitStore ==
    /\ InitTables
    /\ monitors \in [MonitorIDs -> MonitorConfigs]

\* NewScheduler: no timers, nothing running, no runLoop goroutine yet.
NewScheduler == [timers |-> <<>>, running |-> {}, loops |-> <<>>]

Init ==
    /\ InitStore
    /\ tokens = <<>>
    /\ joins = <<>>
    /\ role = "coordinator"
    /\ sched = NewScheduler
    /\ workerMonitors = <<>>
    /\ link = "up"
    /\ coordResults = <<>>
    /\ main = "running"
    /\ call = NoCall

\* One clock unit (the 90 s of the offline grace window) passes.  The
\* coordinator's heartbeatLoop ticks every 30 s, so its own record has been
\* refreshed by sendHeartbeat when the unit ends.
HeartbeatTick ==
    /\ now < MaxTime
    /\ now' = now + 1
    /\ nodes' = UpdateHeartbeat(nodes, Self, now + 1)
    /\ UNCHANGED <<monitors, results, incidents, alerts, tokens, joins>>
    /\ UNCHANGED aux

\* Scheduler.executeCheck on the coordinator: the result of a check of the
\* monitor is stamped with the node id and the time and inserted.
ExecuteCheck(monitorID, status) ==
    /\ CountRows(results, DOMAIN results) < MaxResults
    /\ results' = InsertCheckResult(results,
                      [monitor_id |-> monitorID, node_id |-> Self,
                       status |-> status, timestamp |-> now])
    /\ UNCHANGED <<now, nodes, monitors, incidents, alerts, tokens, joins>>
    /\ UNCHANGED aux

\* POST /api/v1/peer/result: the received result is inserted as it is.
HandlePeerResult(r) ==
    /\ r.monitor_id \in DOMAIN monitors
    /\ \E i \in 1..Len(nodes) : nodes[i].id = r.node_id
    /\ CountRows(results, DOMAIN results) < MaxResults
    /\ results' = InsertCheckResult(results, r)
    /\ UNCHANGED <<now, nodes, monitors, incidents, alerts, tokens, joins>>
    /\ UNCHANGED aux

\* A node id that no record of the nodes table carries.
UnknownNode == "X"

\* The node ids a heartbeat body may carry: the handler takes any string.
HeartbeatIDs == (NodeIDs \ {Self}) \cup {UnknownNode}

\* POST /api/v1/peer/heartbeat with body node_id = nodeID.
HandlePeerHeartbeat(nodeID) ==
    /\ nodes' = UpdateHeartbeat(nodes, nodeID, now)
    /\ UNCHANGED <<now, monitors, results, incidents, alerts, tokens, joins>>
    /\ UNCHANGED aux

CoordinatorLoops_AnyRole(r) == TRUE

\* Agent.Run starts offlineDetectionLoop, configSyncLoop and consensusLoop
\* on the coordinator only.
CoordinatorLoops(r) == r = "coordinator"

\* One round of offlineDetectionLoop.
OfflineDetection ==
    /\ CoordinatorLoops(role)
    /\ nodes' = DetectOfflineNodes(nodes, OfflineTimeout, now)
    /\ UNCHANGED <<now, monitors, results, incidents, alerts, tokens, joins>>
    /\ UNCHANGED aux

\* One round of consensusLoop.
ConsensusTick(faults) ==
    /\ CoordinatorLoops(role)
    /\ LET cs == evaluateConsensus([incidents |-> incidents, alerts |-> alerts],
                                   monitors, nodes, results, now, faults)
       IN /\ incidents' = cs.incidents
          /\ alerts' = cs.alerts
    /\ UNCHANGED <<now, nodes, monitors, results, tokens, joins>>
    /\ UNCHANGED aux

\* The peers that post results; the third node only heartbeats (it runs no
\* check of the monitor in the window modelled).
Reporters == {"B"}

PeerResults ==
    [monitor_id : MonitorIDs, node_id : Reporters,
     status : CheckStatuses, timestamp : {now}]

Environment ==
    \/ HeartbeatTick
    \/ \E m \in MonitorIDs, st \in CheckStatuses : ExecuteCheck(m, st)
    \/ \E r \in PeerResults : HandlePeerResult(r)
    \/ \E n \in HeartbeatIDs : HandlePeerHeartbeat(n)
    \/ OfflineDetection

Next ==
    \/ Environment
    \/ ConsensusTick(NoFaults)

Spec == Init /\ [][Next]_vars

\* Monitors that ask for one confirming node.
OneOfMConfigs ==
    [enabled : {TRUE},
     failure_threshold : {1},
     recovery_threshold : {1, 2},
     quorum_type : {"n_of_m"},
     quorum_n : {1}]

InitOneOfM ==
    /\ InitTables
    /\ monitors \in [MonitorIDs -> OneOfMConfigs]
    /\ tokens = <<>>
    /\ joins = <<>>
    /\ role = "coordinator"
    /\ sched = NewScheduler
    /\ workerMonitors = <<>>
    /\ link = "up"
    /\ coordResults = <<>>
    /\ main = "running"
    /\ call = NoCall

SpecOneOfM == InitOneOfM /\ [][Next]_vars

NextFaults ==
    \/ Environment
    \/ \E faults \in [MonitorIDs -> FaultKinds] : ConsensusTick(faults)

SpecFaults == Init /\ [][NextFaults]_vars

----------------------------------------------------------------------------
\* Join tokens and POST /api/v1/peer/join

\* The secrets a join request can carry.  The first two are drawn by
\* GenerateJoinToken; the third is never issued.
Secrets == {"s1", "s2", "s3"}

IssuedSecrets == {"s1", "s2"}

\* Lifetimes given to `pingmesh token --expires`, in clock units.
Expiries == {1, 2}

\* base64(sha256(secret)): distinct secrets have distinct hashes.
hashStr(secret) ==
    CASE secret = "s1" -> "h1"
      [] secret = "s2" -> "h2"
      [] secret = "s3" -> "h3"

\* INSERT INTO join_tokens (token_hash, expires_at, used) VALUES (?, ?, 0)
StoreJoinToken(toks, tokenHash, expiresAt) ==
    [h \in DOMAIN toks \cup {tokenHash} |->
        IF h = tokenHash THEN [expires_at |-> expiresAt, used |-> FALSE]
        ELSE toks[h]]

\* ValidateAndConsumeToken that accepts a token at the instant it expires.
ValidateAndConsumeToken_AtExpiry(toks, tokenHash, t) ==
    IF /\ tokenHash \in DOMAIN toks
       /\ ~toks[tokenHash].used
       /\ toks[tokenHash].expires_at >= t
    THEN [tokens |-> [toks EXCEPT ![tokenHash].used = TRUE], valid |-> TRUE]
    ELSE [tokens |-> toks, valid |-> FALSE]

\* ValidateAndConsumeToken that checks the row without marking it used.
ValidateAndConsumeToken_NoConsume(toks, tokenHash, t) ==
    [tokens |-> toks,
     valid |-> /\ tokenHash \in DOMAIN toks
               /\ ~toks[tokenHash].used
               /\ toks[tokenHash].expires_at > t]

\* UPDATE join_tokens SET used = 1
\*   WHERE token_hash = ? AND used = 0 AND expires_at > ?
\* in one statement; valid is RowsAffected > 0.
ValidateAndConsumeToken(toks, tokenHash, t) ==
    IF /\ tokenHash \in DOMAIN toks
       /\ ~toks[tokenHash].used
       /\ toks[tokenHash].expires_at > t
    THEN [tokens |-> [toks EXCEPT ![tokenHash].used = TRUE], valid |-> TRUE]
    ELSE [tokens |-> toks, valid |-> FALSE]

ValidateJoinToken(toks, secret, t) ==
    ValidateAndConsumeToken(toks, hashStr(secret), t)

\* uuid.New() of the request's handler: fresh for every request.
NewNodeID(i) == "J" \o ToString(i)

\* `pingmesh token` on the coordinator: a fresh secret is drawn and the hash
\* stored with the expiry time.
GenerateJoinToken(secret, expiry) ==
    /\ role = "coordinator"
    /\ hashStr(secret) \notin DOMAIN tokens
    /\ tokens' = StoreJoinToken(tokens, hashStr(secret), now + expiry)
    /\ UNCHANGED <<now, nodes, monitors, results, incidents, alerts, joins>>
    /\ UNCHANGED aux

\* The files of the coordinator's certs directory, by their content.
CertsDir == ("ca.crt" :> "CA CERTIFICATE") @@ ("ca.key" :> "CA PRIVATE KEY")

ReadFile(name) == CertsDir[name]

GenerateNodeCertPEM_EncodesCAKey(nodeID) ==
    [certPEM |-> "CERTIFICATE pingmesh-" \o nodeID,
     keyPEM |-> ReadFile("ca.key")]

\* GenerateNodeCertPEM loads the CA certificate and key, draws a key for the
\* node and signs a certificate for it: it returns the new certificate and
\* the new key.
GenerateNodeCertPEM(nodeID) ==
    [certPEM |-> "CERTIFICATE pingmesh-" \o nodeID,
     keyPEM |-> "PRIVATE KEY pingmesh-" \o nodeID]

\* No JoinResponse is written: an error body.
NoResponse ==
    [node_id |-> "", ca_cert |-> "", node_cert |-> "", node_key |-> "",
     coordinator_id |-> ""]

\* The JoinResponse handlePeerJoin writes for the node it created.
JoinResponse(nodeID) ==
    LET pem == GenerateNodeCertPEM(nodeID)
    IN [node_id |-> nodeID,
        ca_cert |-> ReadFile("ca.crt"),
        node_cert |-> pem.certPEM,
        node_key |-> pem.keyPEM,
        coordinator_id |-> Self]

\* handlePeerJoin without the check of config.Role.
JoinEntry_NoRoleCheck(r, secret) ==
    [secret |-> secret, pc |-> "validate", code |-> 0, resp |-> NoResponse]

\* handlePeerJoin up to the decoded request body: 403 unless the node is the
\* coordinator, otherwise the handler goes on to validate the secret.
JoinEntry(r, secret) ==
    IF r # "coordinator"
    THEN [secret |-> secret, pc |-> "done", code |-> 403, resp |-> NoResponse]
    ELSE [secret |-> secret, pc |-> "validate", code |-> 0, resp |-> NoResponse]

\* A join request carrying the secret arrives at the node's server.
ReceiveJoin(secret) ==
    /\ Len(joins) < MaxJoinRequests
    /\ joins' = Append(joins, JoinEntry(role, secret))
    /\ UNCHANGED <<now, nodes, monitors, results, incidents, alerts, tokens>>
    /\ UNCHANGED aux

\* handlePeerJoin, token validation: 401 if the token is not valid,
\* otherwise the token is consumed and the handler goes on.
JoinValidate(i) ==
    /\ joins[i].pc = "validate"
    /\ LET v == ValidateJoinToken(tokens, joins[i].secret, now)
       IN /\ tokens' = v.tokens
          /\ joins' = [joins EXCEPT ![i] =
                          IF v.valid THEN [@ EXCEPT !.pc = "create"]
                          ELSE [@ EXCEPT !.pc = "done", !.code = 401]]
    /\ UNCHANGED <<now, nodes, monitors, results, incidents, alerts>>
    /\ UNCHANGED aux

\* handlePeerJoin, after validation with certificate and CA file in hand:
\* the node record is created and the JoinResponse written (200).
JoinCreateNode(i) ==
    /\ joins[i].pc = "create"
    /\ nodes' = CreateNode(nodes, NodeRow(NewNodeID(i), "node", now))
    /\ joins' = [joins EXCEPT ![i] =
                    [@ EXCEPT !.pc = "done", !.code = 200,
                              !.resp = JoinResponse(NewNodeID(i))]]
    /\ UNCHANGED <<now, monitors, results, incidents, alerts, tokens>>
    /\ UNCHANGED aux

\* handlePeerJoin, after validation: certificate generation, the read of
\* ca.crt or CreateNode fails and the handler answers 500.
JoinFail(i) ==
    /\ joins[i].pc = "create"
    /\ joins' = [joins EXCEPT ![i] = [@ EXCEPT !.pc = "done", !.code = 500]]
    /\ UNCHANGED <<now, nodes, monitors, results, incidents, alerts, tokens>>
    /\ UNCHANGED aux

HandlePeerJoin ==
    \/ \E s \in Secrets : ReceiveJoin(s)
    \/ \E i \in 1..Len(joins) : JoinValidate(i)
    \/ \E i \in 1..Len(joins) : JoinCreateNode(i)

NextJoin ==
    \/ HeartbeatTick
    \/ \E s \in IssuedSecrets, e \in Expiries : GenerateJoinToken(s, e)
    \/ HandlePeerJoin

\* The node serving the join endpoint is the coordinator or a worker; a
\* worker's Store holds the node and monitor rows it was synced.
Roles == {"coordinator", "node"}

InitJoin ==
    /\ InitStore
    /\ tokens = <<>>
    /\ joins = <<>>
    /\ role \in Roles
    /\ sched = NewScheduler
    /\ workerMonitors = <<>>
    /\ link = "up"
    /\ coordResults = <<>>
    /\ main = "running"
    /\ call = NoCall

SpecJoin == InitJoin /\ [][NextJoin]_vars

NextJoinFaults ==
    \/ NextJoin
    \/ \E i \in 1..Len(joins) : JoinFail(i)

SpecJoinFaults == InitJoin /\ [][NextJoinFaults]_vars


----------------------------------------------------------------------------
\* Scheduler: one runLoop goroutine per scheduled monitor

\* A runLoop goroutine: its monitor, whether its context is cancelled (and
\* its ticker stopped), whether a tick waits in ticker.C, where it is, and
\* the result its executeCheck has built.
\*   start  - started, about to call executeCheck
\*   wait   - in the select of runLoop
\*   lookup - executeCheck past the running guard, about to read the monitor
\*   check  - c.Check in flight
\*   insert - result built and stamped, about to be stored
\*   exit   - returned
NewLoop(monitorID) ==
    [monitor |-> monitorID, cancelled |-> FALSE, tick |-> FALSE,
     pc |-> "start", status |-> "up", timestamp |-> 0]

\* DELETE FROM monitors WHERE id = ? (foreign keys are on: the row cannot go
\* while a result or an incident refers to it).
DeleteMonitor(ms, id) == [x \in DOMAIN ms \ {id} |-> ms[x]]

\* INSERT INTO monitors
CreateMonitor(ms, id, row) ==
    [x \in DOMAIN ms \cup {id} |-> IF x = id THEN row ELSE ms[x]]

\* stopMonitor: ticker stopped, context cancelled, entries of the three maps
\* deleted.
stopMonitor(sc, id) ==
    IF id \in DOMAIN sc.timers
    THEN [sc EXCEPT !.loops[sc.timers[id]].cancelled = TRUE,
                    !.timers = [x \in DOMAIN sc.timers \ {id} |-> sc.timers[x]],
                    !.running = @ \ {id}]
    ELSE [sc EXCEPT !.running = @ \ {id}]

\* startMonitor: new ticker and context registered, goroutine started.
startMonitor(sc, id) ==
    [sc EXCEPT !.loops = Append(@, NewLoop(id)),
               !.timers = [x \in DOMAIN sc.timers \cup {id} |->
                              IF x = id THEN Len(sc.loops) + 1 ELSE sc.timers[x]]]

RECURSIVE StartEach(_, _)
StartEach(sc, list) ==
    IF list = <<>> THEN sc
    ELSE StartEach(IF Head(list) \in DOMAIN sc.timers THEN sc
                   ELSE startMonitor(sc, Head(list)),
                   Tail(list))

RECURSIVE StopEach(_, _)
StopEach(sc, ids) ==
    IF ids = {} THEN sc
    ELSE LET id == CHOOSE x \in ids : TRUE
         IN StopEach(stopMonitor(sc, id), ids \ {id})

\* SyncMonitors without its second loop: nothing is stopped.
SyncMonitors_StartOnly(sc, list) == StartEach(sc, list)

\* Scheduler.SyncMonitors under the scheduler's lock.
SyncMonitors(sc, list) ==
    LET started == StartEach(sc, list)
    IN StopEach(started, DOMAIN started.timers \ Range(list))

\* Scheduler.Stop
Stop(sc) == StopEach(sc, DOMAIN sc.timers)

\* Scheduler.ActiveCount
ActiveCount(sc) == Cardinality(DOMAIN sc.timers)

\* DELETE /api/v1/monitors/{id} on this node.
HandleDeleteMonitor(id) ==
    /\ id \in DOMAIN monitors
    /\ \A n \in NodeIDs : results[<<id, n>>] = <<>>
    /\ \A i \in 1..Len(incidents) : incidents[i].monitor_id # id
    /\ monitors' = DeleteMonitor(monitors, id)
    /\ UNCHANGED <<now, nodes, results, incidents, alerts, tokens, joins>>
    /\ UNCHANGED aux

\* A config sync that carries a monitor this Store does not hold: the row is
\* created with the id it has on the coordinator.
ConfigSyncCreate(id, row) ==
    /\ id \notin DOMAIN monitors
    /\ monitors' = CreateMonitor(monitors, id, row)
    /\ UNCHANGED <<now, nodes, results, incidents, alerts, tokens, joins>>
    /\ UNCHANGED aux

\* Agent.syncMonitors: the enabled monitors are read and handed to the
\* scheduler.
SyncTick ==
    /\ LET after == SyncMonitors(sched, ListEnabledMonitors(monitors))
       IN /\ Len(after.loops) <= MaxLoops
          /\ after # sched
          /\ sched' = after
    /\ UNCHANGED <<now, nodes, monitors, results, incidents, alerts, tokens,
                   joins, role, remote, main, call>>

\* Agent.Run after cancellation: Scheduler.Stop.
SchedulerStop ==
    /\ DOMAIN sched.timers # {}
    /\ sched' = Stop(sched)
    /\ UNCHANGED <<now, nodes, monitors, results, incidents, alerts, tokens,
                   joins, role, remote, main, call>>

\* The ticker of a live loop fires: ticker.C holds one tick.
TickerFire(l) ==
    /\ ~sched.loops[l].cancelled
    /\ sched.loops[l].pc # "start"
    /\ ~sched.loops[l].tick
    /\ sched' = [sched EXCEPT !.loops[l].tick = TRUE]
    /\ UNCHANGED <<now, nodes, monitors, results, incidents, alerts, tokens,
                   joins, role, remote, main, call>>

\* runLoop calls executeCheck (at its start, or on a tick taken by the
\* select); executeCheck returns at once when running[monitor] is set and
\* otherwise sets it and goes on.
BeginCheck(l) ==
    /\ \/ sched.loops[l].pc = "start"
       \/ sched.loops[l].pc = "wait" /\ sched.loops[l].tick
    /\ sched' =
          IF sched.loops[l].monitor \in sched.running
          THEN [sched EXCEPT !.loops[l].pc = "wait", !.loops[l].tick = FALSE]
          ELSE [sched EXCEPT !.loops[l].pc = "lookup",
                             !.loops[l].tick = FALSE,
                             !.running = @ \cup {sched.loops[l].monitor}]
    /\ UNCHANGED <<now, nodes, monitors, results, incidents, alerts, tokens,
                   joins, role, remote, main, call>>

\* A call on the Store fails once SQLiteStore.Close has run.
StoreOpen == main \notin {"closed", "exited"}

\* executeCheck reads the monitor: not found, it returns (the deferred
\* function clears running[monitor]); found, the check starts.
LookupMonitor(l) ==
    /\ sched.loops[l].pc = "lookup"
    /\ sched' =
          IF StoreOpen /\ sched.loops[l].monitor \in DOMAIN monitors
          THEN [sched EXCEPT !.loops[l].pc = "check"]
          ELSE [sched EXCEPT !.loops[l].pc = "wait",
                             !.running = @ \ {sched.loops[l].monitor}]
    /\ UNCHANGED <<now, nodes, monitors, results, incidents, alerts, tokens,
                   joins, role, remote, main, call>>

\* c.Check returns (also after its context was cancelled) and the result is
\* built with Timestamp = time.Now().
FinishCheck(l, status) ==
    /\ sched.loops[l].pc = "check"
    /\ sched' = [sched EXCEPT !.loops[l].pc = "insert",
                              !.loops[l].status = status,
                              !.loops[l].timestamp = now]
    /\ UNCHANGED <<now, nodes, monitors, results, incidents, alerts, tokens,
                   joins, role, remote, main, call>>

\* executeCheck stores the result (the insert fails when the monitor row is
\* gone or the Store closed) and returns; the deferred function clears running[monitor].
StoreResult(l) ==
    /\ sched.loops[l].pc = "insert"
    /\ CountRows(results, DOMAIN results) < MaxResults
    /\ results' =
          IF StoreOpen /\ sched.loops[l].monitor \in DOMAIN monitors
          THEN InsertCheckResult(results,
                   [monitor_id |-> sched.loops[l].monitor, node_id |-> Self,
                    status |-> sched.loops[l].status,
                    timestamp |-> sched.loops[l].timestamp])
          ELSE results
    /\ sched' = [sched EXCEPT !.loops[l].pc = "wait",
                              !.loops[l].status = "up",
                              !.loops[l].timestamp = 0,
                              !.running = @ \ {sched.loops[l].monitor}]
    /\ UNCHANGED <<now, nodes, monitors, incidents, alerts, tokens, joins,
                   role, remote, main, call>>

\* The select of runLoop takes ctx.Done().
LoopExit(l) ==
    /\ sched.loops[l].pc = "wait"
    /\ sched.loops[l].cancelled
    /\ sched' = [sched EXCEPT !.loops[l].pc = "exit"]
    /\ UNCHANGED <<now, nodes, monitors, results, incidents, alerts, tokens,
                   joins, role, remote, main, call>>

RunLoop ==
    \/ \E l \in 1..Len(sched.loops) : TickerFire(l)
    \/ \E l \in 1..Len(sched.loops) : BeginCheck(l)
    \/ \E l \in 1..Len(sched.loops) : LookupMonitor(l)
    \/ \E l \in 1..Len(sched.loops), st \in CheckStatuses : FinishCheck(l, st)
    \/ \E l \in 1..Len(sched.loops) : StoreResult(l)
    \/ \E l \in 1..Len(sched.loops) : LoopExit(l)

NextSched ==
    \/ HeartbeatTick
    \/ \E m \in MonitorIDs : HandleDeleteMonitor(m)
    \/ \E m \in MonitorIDs : ConfigSyncCreate(m, DefaultMonitor)
    \/ SyncTick
    \/ SchedulerStop
    \/ RunLoop

\* The node starts with its monitors as handleCreateMonitor made them.
InitSched ==
    /\ InitTables
    /\ monitors = [m \in MonitorIDs |-> DefaultMonitor]
    /\ tokens = <<>>
    /\ joins = <<>>
    /\ role \in Roles
    /\ sched = NewScheduler
    /\ workerMonitors = <<>>
    /\ link = "up"
    /\ coordResults = <<>>
    /\ main = "running"
    /\ call = NoCall

SpecSched == InitSched /\ [][NextSched]_vars

----------------------------------------------------------------------------
\* Config sync from the coordinator to worker B

\* The worker whose Store is followed.
Worker == "B"

\* SELECT ... FROM monitors ORDER BY name: every monitor row, with its id.
ListMonitors(ms) ==
    LET ids == SelectSeq(MonitorOrder, LAMBDA id : id \in DOMAIN ms)
    IN [i \in 1..Len(ids) |-> [id |-> ids[i], row |-> ms[ids[i]]]]

\* UPDATE monitors SET ... WHERE id = ?
UpdateMonitor(ms, id, row) == [ms EXCEPT ![id] = row]

\* The monitor loop of handlePeerConfigSync / applyConfigSync: each monitor
\* of the sync is updated if the Store has it and created if not.
RECURSIVE ApplyMonitors(_, _)
ApplyMonitors(ws, list) ==
    IF list = <<>> THEN ws
    ELSE LET m == Head(list)
         IN ApplyMonitors(IF m.id \in DOMAIN ws
                          THEN UpdateMonitor(ws, m.id, m.row)
                          ELSE CreateMonitor(ws, m.id, m.row),
                          Tail(list))

\* handlePeerConfigSync, as far as the monitors table goes.
handlePeerConfigSync(ws, syncMonitors) == ApplyMonitors(ws, syncMonitors)

\* applyConfigSync on the worker, as far as the monitors table goes.
applyConfigSync(ws, syncMonitors) == ApplyMonitors(ws, syncMonitors)

\* The worker's monitors after a round of pushConfigSync on the coordinator:
\* the sync is sent to every node that is not the coordinator itself and is
\* online.
pushConfigSync(ws, ms, ns) ==
    IF \E i \in 1..Len(ns) :
           ns[i].id = Worker /\ ns[i].id # Self /\ ns[i].status = "online"
    THEN handlePeerConfigSync(ws, ListMonitors(ms))
    ELSE ws

\* POST /api/v1/monitors on the coordinator: the monitor gets a new id.
HandleCreateMonitor(id, row) ==
    /\ id \notin DOMAIN monitors
    /\ id \notin DOMAIN workerMonitors
    /\ monitors' = CreateMonitor(monitors, id, row)
    /\ UNCHANGED <<now, nodes, results, incidents, alerts, tokens, joins>>
    /\ UNCHANGED aux

\* One round of configSyncLoop.
ConfigPush ==
    /\ workerMonitors' = pushConfigSync(workerMonitors, monitors, nodes)
    /\ UNCHANGED <<now, nodes, monitors, results, incidents, alerts, tokens,
                   joins, role, sched, link, coordResults, main, call>>

\* One round of configPullLoop on the worker, the pull succeeding.
ConfigPull ==
    /\ workerMonitors' = applyConfigSync(workerMonitors, ListMonitors(monitors))
    /\ UNCHANGED <<now, nodes, monitors, results, incidents, alerts, tokens,
                   joins, role, sched, link, coordResults, main, call>>

NextSync ==
    \/ HeartbeatTick
    \/ HandlePeerHeartbeat(Worker)
    \/ OfflineDetection
    \/ \E m \in MonitorIDs, row \in MonitorConfigs : HandleCreateMonitor(m, row)
    \/ \E m \in MonitorIDs : HandleDeleteMonitor(m)
    \/ \E m \in MonitorIDs, st \in CheckStatuses : ExecuteCheck(m, st)
    \/ ConfigPush
    \/ ConfigPull

SpecSync == Init /\ [][NextSync]_vars

----------------------------------------------------------------------------
\* A worker: its scheduler, its config pulls and its link to the coordinator

\* The monitors the coordinator answers a config pull with.
CoordinatorSync == ListMonitors([m \in MonitorIDs |-> DefaultMonitor])

\* pullConfigSync: a failed pull is logged and changes nothing; a pull that
\* succeeds is applied.
PullConfigSync ==
    /\ role # "coordinator"
    /\ monitors' = IF link = "up"
                   THEN applyConfigSync(monitors, CoordinatorSync)
                   ELSE monitors
    /\ UNCHANGED <<now, nodes, results, incidents, alerts, tokens, joins,
                   role, sched, workerMonitors, link, coordResults, main, call>>

\* The coordinator becomes unreachable.
LinkDown ==
    /\ link = "up"
    /\ link' = "down"
    /\ UNCHANGED <<now, nodes, monitors, results, incidents, alerts, tokens,
                   joins, role, sched, workerMonitors, coordResults, main, call>>

\* The coordinator is reachable again.
LinkUp ==
    /\ link = "down"
    /\ link' = "up"
    /\ UNCHANGED <<now, nodes, monitors, results, incidents, alerts, tokens,
                   joins, role, sched, workerMonitors, coordResults, main, call>>

NextWorker ==
    \/ HeartbeatTick
    \/ PullConfigSync
    \/ LinkDown
    \/ LinkUp
    \/ SyncTick
    \/ SchedulerStop
    \/ RunLoop

\* A worker starts with an empty Store, as a node that has just joined.
InitWorker ==
    /\ InitTables
    /\ monitors = <<>>
    /\ tokens = <<>>
    /\ joins = <<>>
    /\ role = "node"
    /\ sched = NewScheduler
    /\ workerMonitors = <<>>
    /\ link = "up"
    /\ coordResults = <<>>
    /\ main = "running"
    /\ call = NoCall

SpecWorker == InitWorker /\ [][NextWorker]_vars

\* handlePeerConfigSync / applyConfigSync for a monitor the Store has: the
\* row is replaced by the one of the sync.
ConfigSyncUpdate(id, row) ==
    /\ id \in DOMAIN monitors
    /\ monitors' = UpdateMonitor(monitors, id, row)
    /\ UNCHANGED <<now, nodes, results, incidents, alerts, tokens, joins>>
    /\ UNCHANGED aux

\* The monitor as a sync carries it, enabled or disabled.
SyncedConfigs == {[DefaultMonitor EXCEPT !.enabled = e] : e \in BOOLEAN}

\* A node whose monitors are enabled and disabled by config syncs while its
\* scheduler runs them.
NextToggle ==
    \/ \E m \in MonitorIDs, row \in SyncedConfigs : ConfigSyncUpdate(m, row)
    \/ SyncTick
    \/ RunLoop

SpecToggle == InitSched /\ [][NextToggle]_vars

\* A node of either role: what reaches it and what its own loops do.
NextRoles ==
    \/ Environment
    \/ ConsensusTick(NoFaults)
    \/ PullConfigSync

InitRoles ==
    /\ InitStore
    /\ tokens = <<>>
    /\ joins = <<>>
    /\ role \in Roles
    /\ sched = NewScheduler
    /\ workerMonitors = <<>>
    /\ link = "up"
    /\ coordResults = <<>>
    /\ main = "running"
    /\ call = NoCall

SpecRoles == InitRoles /\ [][NextRoles]_vars

----------------------------------------------------------------------------
\* A Monitor with its optional fields, from the admin interface through the
\* coordinator's Store and a ConfigSync into a worker's Store

\* The zero value of each field of model.Monitor that is followed here.
ZeroMonitor ==
    [id |-> "", name |-> "", port |-> 0, expected_status |-> 0,
     expected_keyword |-> "", dns_expected |-> "", enabled |-> FALSE,
     created_at |-> 0, updated_at |-> 0]

\* The fields tagged omitempty.
OmitEmpty == {"port", "expected_status", "expected_keyword", "dns_expected"}

\* json.Marshal of a Monitor: an omitempty field is left out when zero.
MarshalMonitor(m) ==
    [f \in {g \in DOMAIN m : ~(g \in OmitEmpty /\ m[g] = ZeroMonitor[g])}
        |-> m[f]]

\* json.Unmarshal into a new Monitor: a field the object lacks stays zero.
UnmarshalMonitor(j) ==
    [f \in DOMAIN ZeroMonitor |-> IF f \in DOMAIN j THEN j[f] ELSE ZeroMonitor[f]]

nullInt(v) ==
    IF v = 0 THEN [Valid |-> FALSE, Int64 |-> 0] ELSE [Valid |-> TRUE, Int64 |-> v]

nullString(v) ==
    IF v = "" THEN [Valid |-> FALSE, String |-> ""]
    ELSE [Valid |-> TRUE, String |-> v]

boolToInt(v) == IF v THEN 1 ELSE 0

\* The column values of INSERT INTO monitors.
InsertMonitorRow(m) ==
    [id |-> m.id, name |-> m.name, port |-> nullInt(m.port),
     expected_status |-> nullInt(m.expected_status),
     expected_keyword |-> nullString(m.expected_keyword),
     dns_expected |-> nullString(m.dns_expected),
     enabled |-> boolToInt(m.enabled),
     created_at |-> m.created_at, updated_at |-> m.updated_at]

\* The row after UPDATE monitors SET ...: every column but id and
\* created_at is written.
UpdateMonitorRow(old, m) ==
    [InsertMonitorRow(m) EXCEPT !.created_at = old.created_at]

\* scanMonitor: a NULL column leaves the field zero; enabled is column = 1.
scanMonitor(row) ==
    [id |-> row.id, name |-> row.name,
     port |-> IF row.port.Valid THEN row.port.Int64 ELSE 0,
     expected_status |-> IF row.expected_status.Valid
                         THEN row.expected_status.Int64 ELSE 0,
     expected_keyword |-> IF row.expected_keyword.Valid
                          THEN row.expected_keyword.String ELSE "",
     dns_expected |-> IF row.dns_expected.Valid
                      THEN row.dns_expected.String ELSE "",
     enabled |-> row.enabled = 1,
     created_at |-> row.created_at, updated_at |-> row.updated_at]

\* Request bodies of POST /api/v1/monitors.
MonitorBodies ==
    [id : {""}, name : {"web"}, port : {0, 443}, expected_status : {0, 200},
     expected_keyword : {"", "ok"}, dns_expected : {"", "1.2.3.4"},
     enabled : {FALSE}, created_at : {0}, updated_at : {0}]

\* Request bodies of PUT /api/v1/monitors/{id}.
UpdateBodies ==
    [id : {""}, name : {"", "api"}, port : {0, 8443}, expected_status : {0},
     expected_keyword : {""}, dns_expected : {""},
     enabled : {FALSE}, created_at : {0}, updated_at : {0}]

\* handleCreateMonitor: id and times are set, the monitor enabled, stored.
AdminCreateMonitor(id, body) ==
    /\ id \notin DOMAIN monitors
    /\ id \notin DOMAIN workerMonitors
    /\ monitors' = CreateMonitor(monitors, id,
                       InsertMonitorRow([body EXCEPT !.id = id,
                                                     !.created_at = now,
                                                     !.updated_at = now,
                                                     !.enabled = TRUE]))
    /\ UNCHANGED <<now, nodes, results, incidents, alerts, tokens, joins>>
    /\ UNCHANGED aux

\* handleUpdateMonitor: the non-zero name and port of the body replace the
\* stored ones, updated_at is set, the monitor stored.
AdminUpdateMonitor(id, updates) ==
    /\ id \in DOMAIN monitors
    /\ LET existing == scanMonitor(monitors[id])
           changed == [existing EXCEPT
                          !.name = IF updates.name # "" THEN updates.name ELSE @,
                          !.port = IF updates.port # 0 THEN updates.port ELSE @,
                          !.updated_at = now]
       IN monitors' = UpdateMonitor(monitors, id,
                          UpdateMonitorRow(monitors[id], changed))
    /\ UNCHANGED <<now, nodes, results, incidents, alerts, tokens, joins>>
    /\ UNCHANGED aux

\* The monitors of a ConfigSync as the worker decodes them: ListMonitors on
\* the coordinator, json.Marshal, json.Unmarshal.
RECURSIVE SyncedMonitors(_)
SyncedMonitors(ids) ==
    IF ids = <<>> THEN <<>>
    ELSE <<UnmarshalMonitor(MarshalMonitor(scanMonitor(monitors[Head(ids)])))>>
             \o SyncedMonitors(Tail(ids))

RECURSIVE ApplyMonitorRows_CreateOnly(_, _)
ApplyMonitorRows_CreateOnly(ws, list) ==
    IF list = <<>> THEN ws
    ELSE LET m == Head(list)
         IN ApplyMonitorRows_CreateOnly(
                IF m.id \in DOMAIN ws
                THEN ws
                ELSE CreateMonitor(ws, m.id, InsertMonitorRow(m)),
                Tail(list))

\* The monitor loop of applyConfigSync over the worker's rows.
RECURSIVE ApplyMonitorRows(_, _)
ApplyMonitorRows(ws, list) ==
    IF list = <<>> THEN ws
    ELSE LET m == Head(list)
         IN ApplyMonitorRows(
                IF m.id \in DOMAIN ws
                THEN UpdateMonitor(ws, m.id, UpdateMonitorRow(ws[m.id], m))
                ELSE CreateMonitor(ws, m.id, InsertMonitorRow(m)),
                Tail(list))

\* The worker's rows once a ConfigSync of the coordinator's monitors, taken
\* now, is applied.
WorkerAfterSync ==
    ApplyMonitorRows(workerMonitors,
        SyncedMonitors(SelectSeq(MonitorOrder,
                                 LAMBDA id : id \in DOMAIN monitors)))

\* A ConfigSync of the coordinator's monitors is applied on the worker.
SyncMonitorRows ==
    /\ workerMonitors' = WorkerAfterSync
    /\ UNCHANGED <<now, nodes, monitors, results, incidents, alerts, tokens,
                   joins, role, sched, link, coordResults, main, call>>

NextRoundTrip ==
    \/ HeartbeatTick
    \/ \E id \in MonitorIDs, body \in MonitorBodies : AdminCreateMonitor(id, body)
    \/ \E id \in MonitorIDs, body \in UpdateBodies : AdminUpdateMonitor(id, body)
    \/ SyncMonitorRows

InitRoundTrip ==
    /\ InitTables
    /\ monitors = <<>>
    /\ tokens = <<>>
    /\ joins = <<>>
    /\ role = "coordinator"
    /\ sched = NewScheduler
    /\ workerMonitors = <<>>
    /\ link = "up"
    /\ coordResults = <<>>
    /\ main = "running"
    /\ call = NoCall

SpecRoundTrip == InitRoundTrip /\ [][NextRoundTrip]_vars

----------------------------------------------------------------------------
\* Shutdown of the agent command

\* The signal handler cancels the context.
Cancel ==
    /\ main = "running"
    /\ main' = "cancelled"
    /\ UNCHANGED <<now, nodes, monitors, results, incidents, alerts, tokens,
                   joins, role, sched, remote, call>>

\* Agent.Run takes ctx.Done(), calls Scheduler.Stop and returns.
AgentStop ==
    /\ main = "cancelled"
    /\ sched' = Stop(sched)
    /\ main' = "stopped"
    /\ UNCHANGED <<now, nodes, monitors, results, incidents, alerts, tokens,
                   joins, role, remote, call>>

\* The deferred st.Close() of the command runs when Run has returned.
StoreClose ==
    /\ main = "stopped"
    /\ main' = "closed"
    /\ UNCHANGED <<now, nodes, monitors, results, incidents, alerts, tokens,
                   joins, role, sched, remote, call>>

\* The command returns and the process ends, its goroutines with it.
ProcessExit ==
    /\ main = "closed"
    /\ main' = "exited"
    /\ UNCHANGED <<now, nodes, monitors, results, incidents, alerts, tokens,
                   joins, role, sched, remote, call>>

\* The loops of the agent leave at ctx.Done(); the goroutines of the
\* scheduler run until the process ends.
NextShutdown ==
    \/ main = "running" /\ HeartbeatTick
    \/ main = "running" /\ SyncTick
    \/ main # "exited" /\ RunLoop
    \/ Cancel
    \/ AgentStop
    \/ StoreClose
    \/ ProcessExit

SpecShutdown == InitSched /\ [][NextShutdown]_vars

----------------------------------------------------------------------------
\* Calls of the library functions of the consensus, one call per behaviour

\* Largest count of nodes in a call of EvaluateQuorum.
MaxCount == 5

\* Rows of the longest result history scanned, past the LIMIT of the scans.
MaxScanRows == 102

\* quorum_type is a free string of the monitor row; "" is the unset one.
QuorumTypes == {"majority", "n_of_m", ""}

QuorumCalls ==
    [op : {"EvaluateQuorum"}, quorumType : QuorumTypes,
     quorumN : 0..MaxCount, failCount : 0..MaxCount, totalCount : 0..MaxCount,
     returned : {FALSE}, result : {FALSE}]

\* The Store of InitTables with the given rows for monitor m1 and node B.
InitLibrary(rows) ==
    /\ now = 1
    /\ nodes = [i \in 1..Len(NodeOrder) |->
                    NodeRow(NodeOrder[i],
                            IF NodeOrder[i] = Self THEN "coordinator" ELSE "node",
                            1)]
    /\ results = [p \in MonitorIDs \X NodeIDs |->
                    IF p = <<"m1", "B">> THEN rows ELSE <<>>]
    /\ incidents = <<>>
    /\ alerts = <<>>
    /\ monitors = [m \in MonitorIDs |-> DefaultMonitor]
    /\ tokens = <<>>
    /\ joins = <<>>
    /\ role = "coordinator"
    /\ sched = NewScheduler
    /\ workerMonitors = <<>>
    /\ link = "up"
    /\ coordResults = <<>>
    /\ main = "running"

InitQuorum ==
    /\ InitLibrary(<<>>)
    /\ call \in QuorumCalls

CallEvaluateQuorum ==
    /\ call.op = "EvaluateQuorum"
    /\ ~call.returned
    /\ call' = [call EXCEPT
                   !.returned = TRUE,
                   !.result = EvaluateQuorum(call.quorumType, call.quorumN,
                                             call.failCount, call.totalCount)]
    /\ UNCHANGED <<now, nodes, monitors, results, incidents, alerts, tokens,
                   joins, role, sched, remote, main>>

NextQuorum == CallEvaluateQuorum

SpecQuorum == InitQuorum /\ [][NextQuorum]_vars

\* Result histories of up to three rows, in any order of arrival (a node
\* stamps a result when it checks, the coordinator stores it when the push
\* arrives) ...
ShortHistories ==
    UNION {[1..k -> [status : CheckStatuses, timestamp : 1..2]] : k \in 0..3}

\* ... and histories around the LIMIT of the scans: k rows in order of
\* time, the oldest of status oldest, the rest up (run = "up") or down and
\* degraded in turn.
LongHistory(k, oldest, run) ==
    [i \in 1..k |->
        [status |-> IF i = 1 THEN oldest
                    ELSE IF run = "up" THEN "up"
                    ELSE IF i % 2 = 0 THEN "down" ELSE "degraded",
         timestamp |-> i]]

LongHistories ==
    {LongHistory(k, oldest, run) :
        k \in (ScanLimit - 1)..MaxScanRows, oldest \in CheckStatuses,
        run \in {"up", "down"}}

StreakOps == {"CountConsecutiveFailures", "CountConsecutiveSuccesses"}

InitStreak ==
    /\ \E rows \in ShortHistories \cup LongHistories : InitLibrary(rows)
    /\ call \in [op : StreakOps, returned : {FALSE}, result : {0}]

CallCountConsecutive ==
    /\ call.op \in StreakOps
    /\ ~call.returned
    /\ call' = [call EXCEPT
                   !.returned = TRUE,
                   !.result = IF call.op = "CountConsecutiveFailures"
                              THEN CountConsecutiveFailures(results, "m1", "B")
                              ELSE CountConsecutiveSuccesses(results, "m1", "B")]
    /\ UNCHANGED <<now, nodes, monitors, results, incidents, alerts, tokens,
                   joins, role, sched, remote, main>>

NextStreak == CallCountConsecutive

SpecStreak == InitStreak /\ [][NextStreak]_vars

\* Monitor ids handed to the scheduler, and the goroutines it may start.
SchedulerIDs == {"m1", "m2", "m3"}
MaxStarted == 4

\* The lists syncMonitors hands over: ids of distinct rows, in any order.
MonitorLists ==
    {list \in UNION {[1..k -> SchedulerIDs] : k \in 0..Cardinality(SchedulerIDs)} :
        \A i, j \in 1..Len(list) : list[i] = list[j] => i = j}

InitSyncMonitors ==
    /\ InitLibrary(<<>>)
    /\ call = NoCall

\* A call of SyncMonitors(list) followed by one of ActiveCount().
CallSyncMonitors(list) ==
    /\ Len(SyncMonitors(sched, list).loops) <= MaxStarted
    /\ sched' = SyncMonitors(sched, list)
    /\ call' = [op |-> "SyncMonitors", list |-> list,
                result |-> ActiveCount(SyncMonitors(sched, list))]
    /\ UNCHANGED <<now, nodes, monitors, results, incidents, alerts, tokens,
                   joins, role, remote, main>>

NextSyncMonitors == \E list \in MonitorLists : CallSyncMonitors(list)

SpecSyncMonitors == InitSyncMonitors /\ [][NextSyncMonitors]_vars

\* The retry loop of executeCheck, one execution per behaviour

\* Largest retries setting of a monitor row.
MaxRetries == 4

\* What a call of Checker.Check returns: a Result with a status and a nil
\* error, or a nil Result and an error.
NilResult == "nil"
CheckOutcomes == CheckStatuses \cup {NilResult}

\* attempts := monitor.Retries; if attempts < 1 { attempts = 1 }
Attempts(retries) == IF retries < 1 THEN 1 ELSE retries

\* The retry loop that never leaves before its last attempt.
BreaksLoop_Never(outcome) == FALSE

\* if lastResult.Status == model.StatusUp { break }; an attempt with an
\* error takes the continue before it.
BreaksLoop(outcome) == outcome = "up"

\* The status of the CheckResult built from lastResult, synthesized down
\* when lastResult is nil.
ResultStatus(lastResult) == IF lastResult = NilResult THEN "down" ELSE lastResult

\* executeCheck past GetMonitor and checker.Get, with the row's retries.
InitRetries ==
    /\ InitLibrary(<<>>)
    /\ call \in [op : {"executeCheck"}, retries : 0..MaxRetries, i : {0},
                 outcomes : {<<>>}, lastResult : {NilResult},
                 pc : {"loop"}]

\* One pass of the loop: c.Check is called and its result kept.
Attempt(outcome) ==
    /\ call.op = "executeCheck"
    /\ call.pc = "loop"
    /\ call.i < Attempts(call.retries)
    /\ call' = [call EXCEPT !.i = @ + 1,
                            !.outcomes = Append(@, outcome),
                            !.lastResult = outcome,
                            !.pc = IF BreaksLoop(outcome) THEN "build" ELSE "loop"]
    /\ UNCHANGED <<now, nodes, monitors, results, incidents, alerts, tokens,
                   joins, role, sched, remote, main>>

\* The loop is left (break, or i = attempts); the CheckResult is built and
\* inserted.
BuildAndStore ==
    /\ call.op = "executeCheck"
    /\ \/ call.pc = "build"
       \/ call.pc = "loop" /\ call.i >= Attempts(call.retries)
    /\ results' = InsertCheckResult(results,
                      [monitor_id |-> "m1", node_id |-> Self,
                       status |-> ResultStatus(call.lastResult),
                       timestamp |-> now])
    /\ call' = [call EXCEPT !.pc = "done"]
    /\ UNCHANGED <<now, nodes, monitors, incidents, alerts, tokens, joins,
                   role, sched, remote, main>>

NextRetries ==
    \/ \E outcome \in CheckOutcomes : Attempt(outcome)
    \/ BuildAndStore

SpecRetries == InitRetries /\ [][NextRetries]_vars

\* The offline sweep statement by statement, with the heartbeats that the
\* server stores while it runs

\* DetectOfflineNodes reads the nodes table and the clock.
SweepBegin ==
    /\ CoordinatorLoops(role)
    /\ call = NoCall
    /\ call' = [op |-> "DetectOfflineNodes", listed |-> ListNodes(nodes),
                cutoff |-> now - OfflineTimeout]
    /\ UNCHANGED <<now, nodes, monitors, results, incidents, alerts, tokens,
                   joins, role, sched, remote, main>>

\* One pass of its loop over the rows it has read: a row that was online and
\* stale when read is written back offline with the last_seen read.
SweepStep ==
    /\ call.op = "DetectOfflineNodes"
    /\ call.listed # <<>>
    /\ nodes' = MarkOffline(nodes, <<Head(call.listed)>>, call.cutoff)
    /\ call' = [call EXCEPT !.listed = Tail(@)]
    /\ UNCHANGED <<now, monitors, results, incidents, alerts, tokens, joins,
                   role, sched, remote, main>>

\* DetectOfflineNodes returns.
SweepEnd ==
    /\ call.op = "DetectOfflineNodes"
    /\ call.listed = <<>>
    /\ call' = NoCall
    /\ UNCHANGED <<now, nodes, monitors, results, incidents, alerts, tokens,
                   joins, role, sched, remote, main>>

NextSweep ==
    \/ HeartbeatTick
    \/ \E n \in HeartbeatIDs : HandlePeerHeartbeat(n)
    \/ SweepBegin
    \/ SweepStep
    \/ SweepEnd

SpecSweep == Init /\ [][NextSweep]_vars

\* ------------------------------------------- what a consensus tick reads


\* Ids of the online nodes, as evaluateConsensus lists them.
OnlineIDs ==
    LET onlineNodes == GetOnlineNodes(nodes)
    IN [i \in 1..Len(onlineNodes) |-> onlineNodes[i].id]

\* The failing set F and the recovery set R of a monitor, as sequences.
Failing(m) == FailingNodeIDs(results, m, monitors[m], OnlineIDs)

Recovered(m) == RecoveredNodeIDs(results, m, monitors[m], OnlineIDs)

FailureQuorumMet(m) ==
    EvaluateQuorum(monitors[m].quorum_type, monitors[m].quorum_n,
                   Len(Failing(m)), Len(OnlineIDs))

RecoveryQuorumMet(m) ==
    EvaluateQuorum(monitors[m].quorum_type, monitors[m].quorum_n,
                   Len(Recovered(m)), Len(OnlineIDs))

\* The monitors a tick evaluates in this state.
Evaluated == IF Len(OnlineIDs) = 0 THEN {} ELSE Range(ListEnabledMonitors(monitors))

\* Incidents and alerts as a tick without Store faults leaves them.
TickFrom(cs) == evaluateConsensus(cs, monitors, nodes, results, now, NoFaults)

AfterTick == TickFrom([incidents |-> incidents, alerts |-> alerts])

\* Number of calls of the alerter with this event for incident id.
AlertCount(sent, event, id) ==
    Cardinality({k \in 1..Len(sent) :
                    sent[k].event = event /\ sent[k].incident = id})

\* ------------------------------------------------------------------ claims

\* C1: in every reachable Store state, each monitor has at most one incident
\* whose status is not resolved.
C1_AtMostOneActiveIncident ==
    \A m \in MonitorIDs : Cardinality(ActiveIncidents(incidents, m)) <= 1

\* C1 witness: a monitor has a resolved incident and a later, active one.
C1_Witness ==
    \E i, j \in 1..Len(incidents) :
        /\ i < j
        /\ incidents[i].monitor_id = incidents[j].monitor_id
        /\ incidents[i].status = "resolved"
        /\ incidents[j].status # "resolved"

\* C2: every change of a stored incident status is suspect -> confirmed or
\* confirmed -> resolved, also when Store writes of the tick fail.
C2_OnlyLifecycleTransitions ==
    [][\A i \in 1..Len(incidents) :
          incidents'[i].status # incidents[i].status =>
              <<incidents[i].status, incidents'[i].status>> \in
                  {<<"suspect", "confirmed">>, <<"confirmed", "resolved">>}]_vars

\* C3: a step taken while the monitor has quorum_type majority, at least 3
\* nodes are online and at most one online node is in the failing set
\* confirms no incident of the monitor and sends no alert for it.
C3_SingleVantageNeverConfirms ==
    [][\A m \in MonitorIDs :
          (/\ monitors[m].quorum_type = "majority"
           /\ Len(OnlineIDs) >= 3
           /\ Len(Failing(m)) <= 1)
          => /\ \A i \in 1..Len(incidents') :
                    (incidents'[i].monitor_id = m
                        /\ incidents'[i].status = "confirmed")
                    => (i <= Len(incidents)
                            /\ incidents[i].status = "confirmed")
             /\ \A i \in 1..Len(incidents') :
                    incidents'[i].monitor_id = m
                    => AlertCount(alerts', "alert", i)
                            = AlertCount(alerts, "alert", i)]_vars

\* C3 witness: three nodes online, a majority monitor, exactly one node with
\* a sustained failure (two consecutive non-up results); the consensus tick
\* is enabled in every state, so it runs from this one.
C3_Witness ==
    \E m \in MonitorIDs :
        /\ monitors[m].quorum_type = "majority"
        /\ monitors[m].failure_threshold = 2
        /\ Len(OnlineIDs) = 3
        /\ Len(Failing(m)) = 1
        /\ AfterTick.incidents = incidents

\* C4: an incident that a tick creates is suspect when the tick ends.
C4_CreationLeavesSuspect ==
    [][\A i \in 1..Len(incidents') :
          i > Len(incidents) => incidents'[i].status = "suspect"]_vars

\* C5: if some online node is in the failing set of an evaluated monitor and
\* the failure quorum is not met, the next tick leaves a suspect incident of
\* the monitor in the Store.
C5_SuspectWithoutQuorum ==
    \A m \in Evaluated :
        (Len(Failing(m)) >= 1 /\ ~FailureQuorumMet(m))
        => \E i \in 1..Len(AfterTick.incidents) :
               /\ AfterTick.incidents[i].monitor_id = m
               /\ AfterTick.incidents[i].status = "suspect"

\* C6: when the failure quorum of an evaluated monitor is met and its active
\* incident is suspect, the tick stores it confirmed, with confirmed_at set
\* to the time of the tick and confirming_nodes the failing set F, and calls
\* SendAlert once for it; when the active incident is already confirmed the
\* tick changes nothing and sends nothing; and in every state each incident
\* has had exactly one alert if it was confirmed and none otherwise.
C6_ConfirmOnQuorum ==
    /\ \A m \in Evaluated :
          LET a == GetActiveIncident(incidents, m)
          IN (FailureQuorumMet(m) /\ a # 0) =>
                IF incidents[a].status = "suspect"
                THEN /\ AfterTick.incidents[a].status = "confirmed"
                     /\ AfterTick.incidents[a].confirmed_at = now
                     /\ AfterTick.incidents[a].confirmed_at # 0
                     /\ AfterTick.incidents[a].confirming_nodes = Failing(m)
                     /\ AlertCount(AfterTick.alerts, "alert", a) = 1
                ELSE /\ AfterTick.incidents[a] = incidents[a]
                     /\ AlertCount(AfterTick.alerts, "alert", a)
                            = AlertCount(alerts, "alert", a)
    /\ \A i \in 1..Len(incidents) :
          AlertCount(alerts, "alert", i)
              = IF incidents[i].confirmed_at # 0 THEN 1 ELSE 0

\* C6 witness: an incident that stayed suspect after the tick that created
\* it has been confirmed by a later tick, by a non-empty failing set, with
\* one alert.
C6_Witness ==
    \E i \in 1..Len(incidents) :
        /\ incidents[i].status = "confirmed"
        /\ incidents[i].confirmed_at > incidents[i].created_at
        /\ incidents[i].confirming_nodes # <<>>
        /\ AlertCount(alerts, "alert", i) = 1

C8_TickIdempotent == TickFrom(AfterTick) = AfterTick

\* C8 witness: a state in which the first tick does change the incidents (it
\* resolves one and so sends a recovery).
C8_Witness ==
    /\ AfterTick.incidents # incidents
    /\ Len(AfterTick.alerts) > Len(alerts)
    /\ Len(incidents) >= 1

\* The join requests that carry the secret.
RequestsWith(secret) == {i \in 1..Len(joins) : joins[i].secret = secret}

\* The node records created by the handlers of the requests.
NodesCreatedBy(reqs) ==
    {k \in 1..Len(nodes) : \E i \in reqs : nodes[k].id = NewNodeID(i)}

C10_InvalidTokenRejected ==
    /\ [](\A i \in 1..Len(joins) :
             joins[i].code = 401 => NodesCreatedBy({i}) = {})
    /\ [][\A i \in 1..Len(joins) :
             (joins[i].pc = "validate" /\ joins'[i].pc # "validate") =>
                LET h == hashStr(joins[i].secret)
                IN IF /\ h \in DOMAIN tokens
                      /\ tokens[h].used = FALSE
                      /\ now < tokens[h].expires_at
                   THEN /\ joins'[i].pc = "create"
                        /\ tokens' = [tokens EXCEPT ![h].used = TRUE]
                   ELSE /\ joins'[i].pc = "done"
                        /\ joins'[i].code = 401
                        /\ tokens' = tokens
                        /\ nodes' = nodes]_vars

\* C10 witness: requests have been answered 401 for a token that expired
\* unused (presented at or after its expiry time) and for a used token.
C10_Witness ==
    /\ \E i \in 1..Len(joins) :
          /\ joins[i].code = 401
          /\ hashStr(joins[i].secret) \in DOMAIN tokens
          /\ ~tokens[hashStr(joins[i].secret)].used
          /\ tokens[hashStr(joins[i].secret)].expires_at <= now
    /\ \E i \in 1..Len(joins) :
          /\ joins[i].code = 401
          /\ hashStr(joins[i].secret) \in DOMAIN tokens
          /\ tokens[hashStr(joins[i].secret)].used

\* C11: on a node whose role is not coordinator every join request is
\* answered 403 at once, and a step that takes in a join request leaves the
\* token rows and the node records of that node's Store as they were.
C11_JoinOnlyOnCoordinator ==
    /\ [](role # "coordinator" =>
            \A i \in 1..Len(joins) : joins[i].pc = "done" /\ joins[i].code = 403)
    /\ [][(role # "coordinator" /\ joins' # joins) =>
            (tokens' = tokens /\ nodes' = nodes)]_vars

\* C11 witness: a worker has answered a join request 403.
C11_Witness ==
    /\ role = "node"
    /\ Len(joins) >= 1
    /\ joins[1].code = 403

\* The loops whose executeCheck for the monitor has its check in flight.
ChecksInFlight(m) ==
    {l \in 1..Len(sched.loops) :
        sched.loops[l].monitor = m /\ sched.loops[l].pc = "check"}

\* C12: for every monitor at most one executeCheck invocation is running the
\* check at any time.
C12_NoConcurrentChecks ==
    \A m \in MonitorIDs : Cardinality(ChecksInFlight(m)) <= 1

\* C13: for every (monitor, node) the stored results, in insertion order,
\* have non-decreasing timestamps.
C13_TimestampsNonDecreasing ==
    \A p \in DOMAIN results :
        \A i, j \in 1..Len(results[p]) :
            i < j => results[p][i].timestamp <= results[p][j].timestamp

\* Worker B's monitors table after k rounds of pushConfigSync with no write
\* to the coordinator's monitors in between.
RECURSIVE AfterPushes(_, _)
AfterPushes(ws, k) ==
    IF k = 0 THEN ws
    ELSE AfterPushes(pushConfigSync(ws, monitors, nodes), k - 1)

WorkerOnline ==
    \E i \in 1..Len(nodes) : nodes[i].id = Worker /\ nodes[i].status = "online"

\* C14: whatever was created or deleted before, once two config-push rounds
\* have passed with no monitor written on the coordinator, an online
\* worker's monitors equal the coordinator's.
C14_ConfigSyncConverges ==
    WorkerOnline => AfterPushes(workerMonitors, 2) = monitors

\* Loop l leaves the insert of executeCheck in this step.
Stores(l) ==
    /\ l \in 1..Len(sched.loops)
    /\ sched.loops[l].pc = "insert"
    /\ sched'.loops[l].pc # "insert"

\* The result loop l holds, as the row the Store keeps of it.
ProducedRow(l) ==
    [status |-> sched.loops[l].status, timestamp |-> sched.loops[l].timestamp]

\* C15: a result a worker's scheduler produces is stored locally and then
\* handed to the sink, which pushes it to the coordinator: while the
\* coordinator is reachable the result is in the coordinator's Store too.
C15_WorkerResultsReachCoordinator ==
    [][\A l \in 1..MaxLoops :
          (Stores(l) /\ role # "coordinator") =>
              /\ ProducedRow(l) \in Range(results'[<<sched.loops[l].monitor, Self>>])
              /\ link = "up" => ProducedRow(l) \in Range(coordResults')]_vars

\* Some result of this node is in its Store and not in the coordinator's:
\* what a failed push leaves behind.
PushFailedBefore ==
    \E m \in MonitorIDs :
        \E i \in 1..Len(results[<<m, Self>>]) :
            results[<<m, Self>>][i] \notin Range(coordResults)

\* C16: a worker whose push fails has stored the result locally and its loop
\* goes on waiting for the next tick; after a failed push, a result produced
\* while the coordinator is reachable again is pushed, and a config pull
\* made then is applied.
C16_WorkerSurvivesOutage ==
    [][/\ \A l \in 1..MaxLoops :
             (Stores(l) /\ role # "coordinator") =>
                 /\ ProducedRow(l) \in
                        Range(results'[<<sched.loops[l].monitor, Self>>])
                 /\ sched'.loops[l].pc = "wait"
                 /\ (link = "up" /\ PushFailedBefore) =>
                        ProducedRow(l) \in Range(coordResults')
       /\ (PullConfigSync /\ link = "up") =>
               \A m \in MonitorIDs : m \in DOMAIN monitors']_vars

\* The nodes table as an offline sweep made now leaves it.
Swept == DetectOfflineNodes(nodes, OfflineTimeout, now)

\* Node row i is online and was last seen before the cutoff of a sweep.
Stale(i) ==
    nodes[i].status = "online" /\ nodes[i].last_seen < now - OfflineTimeout

\* The ids of the online nodes after the sweep, as a tick would list them.
OnlineAfterSweep ==
    LET onlineNodes == GetOnlineNodes(Swept)
    IN [i \in 1..Len(onlineNodes) |-> onlineNodes[i].id]

\* Incidents and alerts as a fault-free tick following the sweep leaves them.
TickAfterSweep ==
    evaluateConsensus([incidents |-> incidents, alerts |-> alerts],
                      monitors, Swept, results, now, NoFaults)

\* C17: an offline sweep sets to offline exactly the online nodes last seen
\* before now - timeout, changes no other status and no last_seen; the
\* nodes it marked are no longer among the online nodes; and the tick that
\* follows raises an incident for a monitor without an active one exactly
\* when the failing nodes among the remaining online nodes meet the quorum
\* over their reduced number.
C17_DetectOffline ==
    /\ Len(Swept) = Len(nodes)
    /\ \A i \in 1..Len(nodes) :
          /\ Swept[i].id = nodes[i].id
          /\ Swept[i].last_seen = nodes[i].last_seen
          /\ Swept[i].status = IF Stale(i) THEN "offline" ELSE nodes[i].status
    /\ Range(OnlineAfterSweep) =
          {nodes[i].id : i \in {j \in 1..Len(nodes) :
                                   nodes[j].status = "online" /\ ~Stale(j)}}
    /\ Len(OnlineAfterSweep) > 0 =>
          \A m \in Range(ListEnabledMonitors(monitors)) :
              LET F == FailingNodeIDs(results, m, monitors[m], OnlineAfterSweep)
              IN GetActiveIncident(incidents, m) = 0 =>
                    (GetActiveIncident(TickAfterSweep.incidents, m) # 0
                        <=> EvaluateQuorum(monitors[m].quorum_type,
                                           monitors[m].quorum_n,
                                           Len(F), Len(OnlineAfterSweep)))

\* C17 witness: a sweep is about to mark a node, and the tick after the
\* sweep raises an incident although the failing nodes are not a majority
\* of the nodes that are online before the sweep.
C17_Witness ==
    /\ \E i \in 1..Len(nodes) : Stale(i)
    /\ \E m \in Range(ListEnabledMonitors(monitors)) :
          /\ GetActiveIncident(incidents, m) = 0
          /\ monitors[m].quorum_type = "majority"
          /\ ~FailureQuorumMet(m)
          /\ GetActiveIncident(TickAfterSweep.incidents, m) # 0

\* Loop l leaves the GetMonitor call of executeCheck in this step.
Looks(l) ==
    /\ l \in 1..Len(sched.loops)
    /\ sched.loops[l].pc = "lookup"
    /\ sched'.loops[l].pc # "lookup"

\* C18: the Store is closed last: once it has been closed no executeCheck,
\* also one that was in flight when Stop was called, calls the Store.
C18_StoreClosedLast ==
    [][main = "closed" =>
          \A l \in 1..MaxLoops : ~Stores(l) /\ ~Looks(l)]_vars

\* The coordinator is the only online node.
CoordinatorAlone == OnlineIDs = <<Self>>

\* The coordinator's own failure streak for m reaches failure_threshold.
OwnStreakReached(m) ==
    CountConsecutiveFailures(results, m, Self) >= monitors[m].failure_threshold

\* The tick raises an incident for m from the coordinator's vantage alone:
\* the failure quorum is met by the failing set <<Self>>, and after the tick
\* m has an active incident, which, if the tick created it, is confirmed by
\* the coordinator alone.
RaisedAlone(m) ==
    /\ Failing(m) = <<Self>>
    /\ FailureQuorumMet(m)
    /\ LET a == GetActiveIncident(AfterTick.incidents, m)
       IN /\ a # 0
          /\ GetActiveIncident(incidents, m) = 0 =>
                /\ AfterTick.incidents[a].status = "confirmed"
                /\ AfterTick.incidents[a].confirming_nodes = <<Self>>

\* C19 as stated: when the coordinator is the only online node and its own
\* failure streak reaches failure_threshold, an incident is raised from its
\* vantage alone, for every enabled monitor.
C19_QuorumOfOne ==
    CoordinatorAlone =>
        \A m \in Evaluated : OwnStreakReached(m) => RaisedAlone(m)

\* C19 amended: the same for every enabled monitor that is not n_of_m with
\* quorum_n above 1.
C19_QuorumOfOneUnlessNofM ==
    CoordinatorAlone =>
        \A m \in Evaluated :
            (/\ OwnStreakReached(m)
             /\ monitors[m].quorum_type = "n_of_m" => monitors[m].quorum_n <= 1)
                => RaisedAlone(m)

\* C19 witness: with every worker offline a tick has raised an incident that
\* the coordinator alone confirmed.
C19_Witness ==
    /\ CoordinatorAlone
    /\ \A i \in 1..Len(nodes) : nodes[i].id # Self => nodes[i].status = "offline"
    /\ \E a \in 1..Len(incidents) :
          /\ incidents[a].status = "confirmed"
          /\ incidents[a].confirming_nodes = <<Self>>
          /\ incidents[a].created_at = now
          /\ OwnStreakReached(incidents[a].monitor_id)

\* C20: whatever the monitor's quorum_type and quorum_n, a tick resolves an
\* incident only if more than half of the online nodes have a success
\* streak of at least recovery_threshold.
C20_RecoveryNeedsMajority ==
    \A m \in Evaluated :
        LET a == GetActiveIncident(incidents, m)
        IN (a # 0 /\ AfterTick.incidents[a].status = "resolved") =>
              2 * Len(Recovered(m)) > Len(OnlineIDs)

\* C21: on a node that is not the coordinator the Store never holds an
\* incident, the Alerter is never invoked, and no step (tick, check result,
\* heartbeat, config sync) changes either.
C21_OnlyCoordinatorEvaluates ==
    /\ [](role # "coordinator" => (incidents = <<>> /\ alerts = <<>>))
    /\ [][role # "coordinator" =>
              (incidents' = incidents /\ alerts' = alerts)]_vars

\* C21 witness: a worker holds results that meet the failure quorum of an
\* enabled monitor, after results, heartbeats and a config pull reached it,
\* and has no incident.
C21_Witness ==
    /\ role # "coordinator"
    /\ now = MaxTime
    /\ \E m \in Evaluated :
          /\ FailureQuorumMet(m)
          /\ Len(Failing(m)) >= 2
    /\ incidents = <<>>

\* C22: a node that is not the coordinator stores no result received from a
\* peer, and on the coordinator the row inserted for a received result has
\* the monitor, node, status and timestamp of the request.
C22_ResultEndpointCoordinatorOnly ==
    /\ [](role # "coordinator" =>
             \A m \in MonitorIDs, n \in NodeIDs \ {Self} :
                 results[<<m, n>>] = <<>>)
    /\ [][\A r \in PeerResults :
             HandlePeerResult(r) =>
                 LET rows == results'[<<r.monitor_id, r.node_id>>]
                 IN rows[Len(rows)] =
                        [status |-> r.status, timestamp |-> r.timestamp]]_vars

\* What a join exchange puts on the wire: the secret of the request and the
\* fields of the response.
OnTheWire(i) ==
    {joins[i].secret} \cup {joins[i].resp[f] : f \in DOMAIN joins[i].resp}

\* C23: no join request or response carries the CA private key; a
\* JoinResponse holds the new node's id, the CA certificate, the node's
\* certificate, the node's own key and the coordinator's id, and nothing
\* else.
C23_CAKeyNeverSent ==
    \A i \in 1..Len(joins) :
        /\ ReadFile("ca.key") \notin OnTheWire(i)
        /\ DOMAIN joins[i].resp =
               {"node_id", "ca_cert", "node_cert", "node_key", "coordinator_id"}
        /\ joins[i].code = 200 =>
               /\ joins[i].resp.node_id = NewNodeID(i)
               /\ joins[i].resp.ca_cert = ReadFile("ca.crt")
               /\ joins[i].resp.node_cert = "CERTIFICATE pingmesh-" \o NewNodeID(i)
               /\ joins[i].resp.node_key = "PRIVATE KEY pingmesh-" \o NewNodeID(i)
               /\ joins[i].resp.coordinator_id = Self
        /\ joins[i].code # 200 => joins[i].resp = NoResponse

\* C23 witness: a join succeeded and its response carries the key of the
\* node that joined.
C23_Witness ==
    \E i \in 1..Len(joins) :
        /\ joins[i].code = 200
        /\ joins[i].resp.node_key = "PRIVATE KEY pingmesh-" \o NewNodeID(i)
        /\ \E k \in 1..Len(nodes) : nodes[k].id = joins[i].resp.node_id

\* C24: after a ConfigSync is applied, each monitor of the coordinator reads
\* back from the worker's Store with every field equal to what the
\* coordinator's Store gives, whether the worker created or updated its row
\* and whichever optional fields are zero.
C24_MonitorRoundTrip ==
    \A id \in DOMAIN monitors :
        /\ id \in DOMAIN WorkerAfterSync
        /\ scanMonitor(WorkerAfterSync[id]) = scanMonitor(monitors[id])

\* C24 witness: the worker holds a monitor that was updated after its
\* creation, with a zero and a non-zero optional field, equal to the
\* coordinator's.
C24_Witness ==
    \E id \in DOMAIN monitors \cap DOMAIN workerMonitors :
        LET m == scanMonitor(workerMonitors[id])
        IN /\ m = scanMonitor(monitors[id])
           /\ m.updated_at > m.created_at
           /\ m.expected_status = 0
           /\ m.port # 0
           /\ ~workerMonitors[id].expected_status.Valid

\* C25: a tick that fires while the check of its loop is executing is
\* dropped: when the check has stored its result and returns, no tick is
\* waiting for the loop, so the next check starts only at a tick that fires
\* later.
C25_TickDuringCheckSkipped ==
    [][\A l \in 1..MaxLoops : Stores(l) => ~sched'.loops[l].tick]_vars

\* C26: executeCheck reads the monitor at each execution, and when the
\* monitor is missing or disabled at that moment it returns: no checker is
\* called and no result inserted.
C26_SkipMissingOrDisabled ==
    [][\A l \in 1..MaxLoops :
          (/\ Looks(l)
           /\ \/ sched.loops[l].monitor \notin DOMAIN monitors
              \/ ~monitors[sched.loops[l].monitor].enabled)
              => /\ sched'.loops[l].pc = "wait"
                 /\ results' = results]_vars

\* The scan of a pair's results, newest first.
NewestFirst(m, n) == OrderByTimestampDesc(results[<<m, n>>])

\* Length of the maximal run of rows with a status in S at the head of scan.
HeadRun(scan, S) ==
    CHOOSE k \in 0..Len(scan) :
        /\ \A i \in 1..k : scan[i].status \in S
        /\ k = Len(scan) \/ scan[k + 1].status \notin S

\* C27: a call of EvaluateQuorum returns true iff count > total div 2 when
\* the type is majority (exactly half is no quorum) and iff count >= n when
\* the type is n_of_m, for all count, total and n up to MaxCount.
C27_EvaluateQuorum ==
    (call.op = "EvaluateQuorum" /\ call.returned) =>
        /\ call.quorumType = "majority" =>
              (call.result <=> call.failCount > call.totalCount \div 2)
        /\ call.quorumType = "n_of_m" =>
              (call.result <=> call.failCount >= call.quorumN)

\* C27 witness: a majority call with exactly half of four nodes has returned
\* false.
C27_Witness ==
    /\ call.op = "EvaluateQuorum"
    /\ call.returned
    /\ call.quorumType = "majority"
    /\ call.failCount = 2
    /\ call.totalCount = 4
    /\ ~call.result

\* C28: CountConsecutiveFailures returns the length of the maximal run of
\* non-up (down or degraded) results at the head of the pair's results read
\* newest first, capped at 100, hence 0 when the latest result is up;
\* CountConsecutiveSuccesses returns the same for up results.
C28_ConsecutiveRuns ==
    call.returned =>
        /\ call.op = "CountConsecutiveFailures" =>
              /\ call.result =
                    Min(HeadRun(NewestFirst("m1", "B"), {"down", "degraded"}),
                        100)
              /\ (/\ NewestFirst("m1", "B") # <<>>
                  /\ Head(NewestFirst("m1", "B")).status = "up")
                     => call.result = 0
        /\ call.op = "CountConsecutiveSuccesses" =>
              call.result =
                  Min(HeadRun(NewestFirst("m1", "B"), {"up"}), 100)

\* C28 witness: a failure count of 100 was returned for a pair with more
\* than 100 results, none of them up and some degraded.
C28_Witness ==
    /\ call.op = "CountConsecutiveFailures"
    /\ call.returned
    /\ call.result = 100
    /\ Len(results[<<"m1", "B">>]) > 100
    /\ \A i \in 1..Len(results[<<"m1", "B">>]) :
           results[<<"m1", "B">>][i].status # "up"
    /\ \E i \in 1..Len(results[<<"m1", "B">>]) :
           results[<<"m1", "B">>][i].status = "degraded"

\* The nodes table after a heartbeat of node id in this state.
AfterHeartbeat(id) == UpdateHeartbeat(nodes, id, now)

\* C29: UpdateHeartbeat(id) sets that node's status to online and its
\* last_seen to now and changes no other node record and no other field;
\* for an id without a node record it creates no record and changes nothing.
C29_HeartbeatFrame ==
    \A id \in HeartbeatIDs :
        /\ Len(AfterHeartbeat(id)) = Len(nodes)
        /\ \A i \in 1..Len(nodes) :
              IF nodes[i].id = id
              THEN /\ AfterHeartbeat(id)[i].status = "online"
                   /\ AfterHeartbeat(id)[i].last_seen = now
                   /\ AfterHeartbeat(id)[i].id = id
                   /\ AfterHeartbeat(id)[i].role = nodes[i].role
                   /\ AfterHeartbeat(id)[i].created_at = nodes[i].created_at
              ELSE AfterHeartbeat(id)[i] = nodes[i]
        /\ (\A i \in 1..Len(nodes) : nodes[i].id # id)
              => AfterHeartbeat(id) = nodes

\* C29 witness: two nodes are offline; the heartbeat of one brings it back
\* online and leaves the other offline.
C29_Witness ==
    \E i, j \in 1..Len(nodes) :
        /\ i # j
        /\ nodes[i].status = "offline"
        /\ nodes[j].status = "offline"
        /\ nodes[i].id \in HeartbeatIDs
        /\ nodes[i].last_seen < now
        /\ AfterHeartbeat(nodes[i].id)[i].status = "online"
        /\ AfterHeartbeat(nodes[i].id)[j].status = "offline"

\* The monitors with a ticker that runs: a goroutine of theirs holds a
\* context that is not cancelled.
Ticking(sc) ==
    {sc.loops[l].monitor : l \in {k \in 1..Len(sc.loops) : ~sc.loops[k].cancelled}}

\* C30: after SyncMonitors(list) returns, the monitors with a running ticker
\* are the ids of list, one ticker each, and ActiveCount() is their number;
\* the call starts the monitors of list that had no ticker, stops and cancels
\* the ones with a ticker that are absent from list, and leaves the others.
C30_SyncMonitorsReconciles ==
    /\ [](call.op = "SyncMonitors" =>
            /\ DOMAIN sched.timers = Range(call.list)
            /\ Ticking(sched) = Range(call.list)
            /\ \A k, l \in 1..Len(sched.loops) :
                  (/\ ~sched.loops[k].cancelled
                   /\ ~sched.loops[l].cancelled
                   /\ sched.loops[k].monitor = sched.loops[l].monitor) => k = l
            /\ call.result = Cardinality(Range(call.list)))
    /\ [][call'.op = "SyncMonitors" =>
            \A id \in SchedulerIDs :
                /\ (id \in Range(call'.list) /\ id \notin DOMAIN sched.timers)
                      => /\ id \in DOMAIN sched'.timers
                         /\ sched'.timers[id] > Len(sched.loops)
                         /\ sched'.loops[sched'.timers[id]] = NewLoop(id)
                /\ (id \notin Range(call'.list) /\ id \in DOMAIN sched.timers)
                      => /\ id \notin DOMAIN sched'.timers
                         /\ sched'.loops[sched.timers[id]].cancelled
                /\ (id \in Range(call'.list) /\ id \in DOMAIN sched.timers)
                      => /\ sched'.timers[id] = sched.timers[id]
                         /\ ~sched'.loops[sched.timers[id]].cancelled]_vars

\* C30 witness: a call has returned that left one monitor running, stopped
\* another and started a third.
C30_Witness ==
    /\ call.op = "SyncMonitors"
    /\ ActiveCount(sched) = 2
    /\ \E k, l, n \in 1..Len(sched.loops) :
          /\ k < n
          /\ l < n
          /\ ~sched.loops[k].cancelled
          /\ sched.loops[l].cancelled
          /\ ~sched.loops[n].cancelled
          /\ sched.loops[l].monitor \notin Range(call.list)
          /\ Cardinality({sched.loops[k].monitor, sched.loops[l].monitor,
                          sched.loops[n].monitor}) = 3

\* The rows this node has stored for monitor m1.
OwnRows == results[<<"m1", Self>>]

\* C31: one execution of a check calls the checker at most max(retries, 1)
\* times, makes no call after an attempt that returned up, and persists
\* exactly one CheckResult, whose status is up iff some attempt returned up
\* and down when the last attempt gave no Result.
C31_RetryLoop ==
    call.op = "executeCheck" =>
        /\ Len(call.outcomes) <= (IF call.retries > 1 THEN call.retries ELSE 1)
        /\ \A k \in 1..Len(call.outcomes) :
              call.outcomes[k] = "up" => k = Len(call.outcomes)
        /\ call.pc # "done" => OwnRows = <<>>
        /\ call.pc = "done" =>
              /\ Len(OwnRows) = 1
              /\ Len(call.outcomes) >= 1
              /\ OwnRows[1].status = "up"
                    <=> \E k \in 1..Len(call.outcomes) : call.outcomes[k] = "up"
              /\ (\A k \in 1..Len(call.outcomes) : call.outcomes[k] = NilResult)
                    => OwnRows[1].status = "down"

\* C31 witness: an execution with retries = 3 has ended after a failed first
\* attempt and a second one that returned up, and stored an up result.
C31_Witness ==
    /\ call.op = "executeCheck"
    /\ call.pc = "done"
    /\ call.retries = 3
    /\ call.outcomes = <<"down", "up">>
    /\ Len(OwnRows) = 1
    /\ OwnRows[1].status = "up"

\* C32: in every stored incident resolved_at is set iff the status is
\* resolved, and confirmed_at is set iff the incident is confirmed or was
\* confirmed before it was resolved: a suspect incident has none, a confirmed
\* one has it, it is written only by the step that confirms, and the step
\* that resolves keeps it as it was.
C32_IncidentTimestamps ==
    /\ [](\A i \in 1..Len(incidents) :
            /\ incidents[i].resolved_at # 0 <=> incidents[i].status = "resolved"
            /\ incidents[i].status = "suspect" => incidents[i].confirmed_at = 0
            /\ incidents[i].status = "confirmed" => incidents[i].confirmed_at # 0)
    /\ [][\A i \in 1..Len(incidents) :
            /\ incidents'[i].confirmed_at # incidents[i].confirmed_at
                  => /\ incidents[i].status = "suspect"
                     /\ incidents'[i].status = "confirmed"
            /\ incidents'[i].resolved_at # incidents[i].resolved_at
                  => /\ incidents[i].status # "resolved"
                     /\ incidents'[i].status = "resolved"]_vars

\* C32 witness: an incident that was confirmed has been resolved at a later
\* time and holds both timestamps.
C32_Witness ==
    \E i \in 1..Len(incidents) :
        /\ incidents[i].status = "resolved"
        /\ incidents[i].confirmed_at # 0
        /\ incidents[i].resolved_at > incidents[i].confirmed_at

\* The join requests that marked the token of hash h used.
ConsumedBy(h) ==
    {i \in 1..Len(joins) :
        /\ hashStr(joins[i].secret) = h
        /\ joins[i].pc = "create" \/ joins[i].code \in {200, 500}}

\* C33: token consumption and node creation are all-or-nothing: a used token
\* belongs to a join request that is still being served or that ended with
\* its Node record created and its JoinResponse returned, and a join request
\* that failed after validation leaves its token unused.
C33_JoinAllOrNothing ==
    /\ \A h \in DOMAIN tokens :
          tokens[h].used =>
              \E i \in ConsumedBy(h) :
                  \/ joins[i].pc = "create"
                  \/ /\ joins[i].code = 200
                     /\ joins[i].resp = JoinResponse(NewNodeID(i))
                     /\ \E k \in 1..Len(nodes) : nodes[k].id = NewNodeID(i)
    /\ \A i \in 1..Len(joins) :
          (joins[i].pc = "done" /\ joins[i].code = 500)
              => ~tokens[hashStr(joins[i].secret)].used

\* C34: every confirmed incident has a non-empty confirming_nodes list, for
\* every quorum setting, n_of_m with quorum_n = 0 included: no incident is
\* created or confirmed on a tick at which no online node has reached the
\* failure threshold.
C34_ConfirmingNodesNonEmpty ==
    \A i \in 1..Len(incidents) :
        incidents[i].status = "confirmed" => incidents[i].confirming_nodes # <<>>

\* There are online nodes, the monitor is enabled and the latest
\* recovery_threshold results of every online node for it are up.
AllRecovered(m) ==
    /\ Len(OnlineIDs) > 0
    /\ monitors[m].enabled
    /\ \A k \in 1..Len(OnlineIDs) :
          CountConsecutiveSuccesses(results, m, OnlineIDs[k])
              >= monitors[m].recovery_threshold

\* C35: resolution is live: while the online nodes are there, the monitor
\* is enabled and every online node's latest recovery_threshold results are
\* up, a consensus tick leaves no incident of the monitor unresolved, for
\* both quorum types and every quorum_n.  (The tick reads nothing else, so
\* an incident that one tick leaves open under these conditions stays open
\* for as long as they last, however often the tick runs.)
C35_ResolutionLive ==
    \A m \in MonitorIDs :
        AllRecovered(m) =>
            \A i \in 1..Len(AfterTick.incidents) :
                AfterTick.incidents[i].monitor_id = m
                    => AfterTick.incidents[i].status = "resolved"

\* C36: a stored heartbeat is never undone by an offline sweep, however the
\* two interleave: no step lowers the stored last_seen of a node, and a node
\* goes offline only when the last_seen stored for it (its latest heartbeat)
\* is older than the timeout.
C36_HeartbeatNotUndone ==
    [][\A i \in 1..Len(nodes) :
          /\ nodes'[i].last_seen >= nodes[i].last_seen
          /\ (nodes[i].status = "online" /\ nodes'[i].status = "offline")
                => nodes[i].last_seen < now - OfflineTimeout]_vars

\* C37: once Stop or SyncMonitors has stopped a monitor, its loop inserts no
\* further CheckResult, also when a check of the monitor was in flight when
\* it was stopped: the step in which a cancelled loop leaves the insert of
\* executeCheck adds no row for the monitor.
C37_StoppedLoopStoresNothing ==
    [][\A l \in 1..MaxLoops :
          (Stores(l) /\ sched.loops[l].cancelled)
              => results'[<<sched.loops[l].monitor, Self>>]
                     = results[<<sched.loops[l].monitor, Self>>]]_vars

\* C38: for every (monitor, node) pair at most one of
\* CountConsecutiveFailures and CountConsecutiveSuccesses is non-zero, so no
\* node is in both the failing set and the recovery set of a tick, and an
\* online node without a result for the monitor is in neither set while it
\* counts in the quorum divisor.
C38_StreaksExclusive ==
    \A m \in MonitorIDs :
        /\ \A n \in NodeIDs :
              \/ CountConsecutiveFailures(results, m, n) = 0
              \/ CountConsecutiveSuccesses(results, m, n) = 0
        /\ Range(Failing(m)) \cap Range(Recovered(m)) = {}
        /\ \A k \in 1..Len(OnlineIDs) :
              results[<<m, OnlineIDs[k]>>] = <<>>
                  => /\ OnlineIDs[k] \notin Range(Failing(m))
                     /\ OnlineIDs[k] \notin Range(Recovered(m))
        /\ Len(Failing(m)) + Len(Recovered(m)) <= Len(OnlineIDs)

\* C38 witness: of three online nodes one is in the failing set with a
\* degraded latest result, one in the recovery set and one has no result.
C38_Witness ==
    /\ Len(OnlineIDs) = 3
    /\ Len(Failing("m1")) = 1
    /\ Len(Recovered("m1")) = 1
    /\ \E n \in Range(Failing("m1")) :
          results[<<"m1", n>>][Len(results[<<"m1", n>>])].status = "degraded"
    /\ \E k \in 1..Len(OnlineIDs) : results[<<"m1", OnlineIDs[k]>>] = <<>>

\* The monitor has incidents and all of them are resolved.
AllResolved(m) ==
    /\ \E i \in 1..Len(incidents) : incidents[i].monitor_id = m
    /\ \A i \in 1..Len(incidents) :
          incidents[i].monitor_id = m => incidents[i].status = "resolved"

\* C39: a resolved incident is never reopened or modified: no step changes
\* a stored incident that is resolved, and when the failure quorum of a
\* monitor is met again after its incident was resolved the tick creates a
\* new incident with a different id and leaves the old rows as they were.
C39_ResolvedIsFinal ==
    /\ [](\A m \in Evaluated :
            (AllResolved(m) /\ FailureQuorumMet(m)) =>
                /\ Len(AfterTick.incidents) = Len(incidents) + 1
                /\ AfterTick.incidents[Len(incidents) + 1].monitor_id = m
                /\ AfterTick.incidents[Len(incidents) + 1].status # "resolved"
                /\ SubSeq(AfterTick.incidents, 1, Len(incidents)) = incidents)
    /\ [][\A i \in 1..Len(incidents) :
            incidents[i].status = "resolved" => incidents'[i] = incidents[i]]_vars

\* C39 witness: the failure quorum was met again after an incident of the
\* monitor was resolved: the resolved incident still holds its confirming
\* nodes and both timestamps, and a second incident, created no earlier than
\* the first was resolved, is confirmed.
C39_Witness ==
    \E i, j \in 1..Len(incidents) :
        /\ i # j
        /\ incidents[i].monitor_id = incidents[j].monitor_id
        /\ incidents[i].status = "resolved"
        /\ incidents[i].confirmed_at # 0
        /\ incidents[i].confirming_nodes # <<>>
        /\ incidents[j].status = "confirmed"
        /\ incidents[j].created_at >= incidents[i].resolved_at
        /\ FailureQuorumMet(incidents[j].monitor_id)

\* UpdateIncident fails for every monitor of the tick.
UpdateFails == [m \in MonitorIDs |-> "update"]

\* Incidents and alerts as a tick leaves them when UpdateIncident fails.
AfterFailedTick ==
    evaluateConsensus([incidents |-> incidents, alerts |-> alerts],
                      monitors, nodes, results, now, UpdateFails)

\* C40: an alert is sent only for a persisted transition: a tick whose
\* UpdateIncident fails while confirming or resolving calls neither SendAlert
\* nor SendRecovery, leaves every stored incident with the status it had (an
\* incident it created stays suspect), and the next tick under the same
\* conditions attempts the transition again: it ends as a tick without the
\* failure would have.
C40_AlertOnlyIfPersisted ==
    /\ AfterFailedTick.alerts = alerts
    /\ Len(AfterFailedTick.incidents) >= Len(incidents)
    /\ \A i \in 1..Len(AfterFailedTick.incidents) :
          IF i <= Len(incidents)
          THEN AfterFailedTick.incidents[i] = incidents[i]
          ELSE AfterFailedTick.incidents[i].status = "suspect"
    /\ TickFrom(AfterFailedTick) = AfterTick

\* C40 witness: a confirmation failed on an earlier tick and left its
\* incident suspect; the failure quorum still holds, a tick that fails again
\* sends nothing, and a tick without failure confirms it and sends the alert.
C40_Witness ==
    \E i \in 1..Len(incidents) :
        /\ incidents[i].status = "suspect"
        /\ FailureQuorumMet(incidents[i].monitor_id)
        /\ AfterFailedTick.incidents[i].status = "suspect"
        /\ AfterTick.incidents[i].status = "confirmed"
        /\ AlertCount(AfterTick.alerts, "alert", i) = 1
        /\ AlertCount(alerts, "alert", i) = 0

====
